---------------------------- MODULE Spec2Model ----------------------------
(***************************************************************************)
(* Layer-group split search of tpu-mlir                                    *)
(* (lib/Dialect/Tpu/Transforms/LayerGroup/LayerGroupUtil.cpp).             *)
(*                                                                         *)
(* A group is a small dataflow graph of operations over tensors.  The      *)
(* model follows update_data_split, stripe_mine_max_slice,                 *)
(* stripe_mine_idx_slice and backward_update_slice step by step: one       *)
(* action per call, per iteration of the search loop and per worklist pop. *)
(***************************************************************************)
EXTENDS Integers, Sequences, FiniteSets, TLC

(***************************************************************************)
(* Bounds of the model.                                                    *)
(***************************************************************************)
MaxN == 3
MaxH == 4

(***************************************************************************)
(* Defining operation of a value that is not produced inside the group.    *)
(***************************************************************************)
ExtOp == 0
WeightOp == 0 - 1
NoneOp == 0 - 2

\* llvm::maxIntN(64) = 2^63 - 1: above the integers of TLC, so the value is
\* held as its decimal numeral and never enters an arithmetic expression
maxIntN64 == "9223372036854775807"

\* group_type_t
GROUP_NORMAL == "GROUP_NORMAL"
GROUP_SMALL_C == "GROUP_SMALL_C"

Min(a, b) == IF a < b THEN a ELSE b
Max(a, b) == IF a > b THEN a ELSE b

ceiling_func(a, b) == (a + b - 1) \div b
align_up(x, a) == ceiling_func(x, a) * a

(***************************************************************************)
(* Groups.  A tensor is a record of its extents (n, c, h), its defining    *)
(* operation (an index into ops, or ExtOp / WeightOp / NoneOp), whether it *)
(* has a user outside the group, its storage bit width, its local-memory   *)
(* bytes per (n, h) row and, for a weight, its whole local-memory size.    *)
(***************************************************************************)
Tensor(n, c, h, def, outer, bits) ==
  [n |-> n, c |-> c, h |-> h, def |-> def, outer |-> outer, bits |-> bits,
   row |-> 1, wbytes |-> 0]

Weight(n, h, wb) ==
  [n |-> n, c |-> 1, h |-> h, def |-> WeightOp, outer |-> FALSE, bits |-> 32,
   row |-> 1, wbytes |-> wb]

Op(kind, ins, outs) ==
  [kind |-> kind, ins |-> ins, outs |-> outs, kh |-> 1, sh |-> 1, ph |-> 0]

ConvOp(ins, outs, kh, sh, ph) ==
  [kind |-> "Conv", ins |-> ins, outs |-> outs, kh |-> kh, sh |-> sh, ph |-> ph]

\* one elementwise operation
GroupSingle(N, H, b) ==
  [name |-> "single", type |-> GROUP_NORMAL,
   tensors |-> << Tensor(N, 1, H, ExtOp, FALSE, b),
                  Tensor(N, 1, H, 1, TRUE, b) >>,
   ops |-> << Op("Elt", <<1>>, <<2>>) >>,
   group_ins |-> <<1>>, group_outs |-> <<2>>]

\* t1 -> Elt -> t2 -> Elt -> t3
GroupChain(N, H, b) ==
  [name |-> "chain", type |-> GROUP_NORMAL,
   tensors |-> << Tensor(N, 1, H, ExtOp, FALSE, b),
                  Tensor(N, 1, H, 1, FALSE, b),
                  Tensor(N, 1, H, 2, TRUE, b) >>,
   ops |-> << Op("Elt", <<1>>, <<2>>), Op("Elt", <<2>>, <<3>>) >>,
   group_ins |-> <<1>>, group_outs |-> <<3>>]

\* t2 is consumed by a convolution (3x3, pad 1) and by an elementwise op
GroupFork(N, H, b) ==
  [name |-> "fork", type |-> GROUP_NORMAL,
   tensors |-> << Tensor(N, 1, H, ExtOp, FALSE, b),
                  Tensor(N, 1, H, 1, FALSE, b),
                  Tensor(N, 1, H, 2, FALSE, b),
                  Tensor(N, 1, H, 3, FALSE, b),
                  Tensor(N, 1, H, 4, TRUE, b) >>,
   ops |-> << Op("Elt", <<1>>, <<2>>),
              ConvOp(<<2>>, <<3>>, 3, 1, 1),
              Op("Elt", <<2>>, <<4>>),
              Op("Add", <<3, 4>>, <<5>>) >>,
   group_ins |-> <<1>>, group_outs |-> <<5>>]

\* t3 = Add(t2, t4) where t4 has batch 1 and height 1
GroupBcast(N, H, b) ==
  [name |-> "bcast", type |-> GROUP_NORMAL,
   tensors |-> << Tensor(N, 1, H, ExtOp, FALSE, b),
                  Tensor(N, 1, H, 1, FALSE, b),
                  Tensor(N, 1, H, 2, TRUE, b),
                  Tensor(1, 1, 1, ExtOp, FALSE, b) >>,
   ops |-> << Op("Elt", <<1>>, <<2>>), Op("Add", <<2, 4>>, <<3>>) >>,
   group_ins |-> <<1, 4>>, group_outs |-> <<3>>]

\* t2 = Conv(t1, w4) (3x3, pad 1), t3 = Elt(t2)
GroupConvW(N, H, b) ==
  [name |-> "convw", type |-> GROUP_NORMAL,
   tensors |-> << Tensor(N, 1, H, ExtOp, FALSE, b),
                  Tensor(N, 1, H, 1, FALSE, b),
                  Tensor(N, 1, H, 2, TRUE, b),
                  Weight(1, 3, 5) >>,
   ops |-> << ConvOp(<<1, 4>>, <<2>>, 3, 1, 1), Op("Elt", <<2>>, <<3>>) >>,
   group_ins |-> <<1>>, group_outs |-> <<3>>]

\* the second operation forbids splitting along the height
\* the convolution group laid out for a small channel count
GroupConvWSmallC(N, H, b) ==
  [GroupConvW(N, H, b) EXCEPT !.name = "convw_small_c",
                              !.type = GROUP_SMALL_C]

GroupNoSplit(N, H, b) ==
  [name |-> "nosplit", type |-> GROUP_NORMAL,
   tensors |-> << Tensor(N, 1, H, ExtOp, FALSE, b),
                  Tensor(N, 1, H, 1, FALSE, b),
                  Tensor(N, 1, H, 2, TRUE, b) >>,
   ops |-> << Op("Elt", <<1>>, <<2>>), Op("NoSplit", <<2>>, <<3>>) >>,
   group_ins |-> <<1>>, group_outs |-> <<3>>]

\* the first operation forbids splitting along the height and has a weight
GroupNoSplitW(N, H, b) ==
  [name |-> "nosplitw", type |-> GROUP_NORMAL,
   tensors |-> << Tensor(N, 1, H, ExtOp, FALSE, b),
                  Tensor(N, 1, H, 1, FALSE, b),
                  Tensor(N, 1, H, 2, TRUE, b),
                  Weight(1, 1, 3) >>,
   ops |-> << Op("NoSplit", <<1, 4>>, <<2>>), Op("Elt", <<2>>, <<3>>) >>,
   group_ins |-> <<1>>, group_outs |-> <<3>>]

\* t2 is a group output that is also consumed inside the group
GroupOutMid(N, H, b) ==
  [name |-> "outmid", type |-> GROUP_NORMAL,
   tensors |-> << Tensor(N, 1, H, ExtOp, FALSE, b),
                  Tensor(N, 1, H, 1, TRUE, b),
                  Tensor(N, 1, H, 2, TRUE, b) >>,
   ops |-> << Op("Elt", <<1>>, <<2>>), Op("Elt", <<2>>, <<3>>) >>,
   group_ins |-> <<1>>, group_outs |-> <<2, 3>>]

\* t3 = Div(t2, t4) where t4 has batch 1 and height 1
GroupBcastDiv(N, H, b) ==
  [name |-> "bcastdiv", type |-> GROUP_NORMAL,
   tensors |-> << Tensor(N, 1, H, ExtOp, FALSE, b),
                  Tensor(N, 1, H, 1, FALSE, b),
                  Tensor(N, 1, H, 2, TRUE, b),
                  Tensor(1, 1, 1, ExtOp, FALSE, b) >>,
   ops |-> << Op("Elt", <<1>>, <<2>>), Op("Div", <<2, 4>>, <<3>>) >>,
   group_ins |-> <<1, 4>>, group_outs |-> <<3>>]

\* one operation that forbids splitting along the height
GroupSingleNoSplit(N, H, b) ==
  [name |-> "singlenosplit", type |-> GROUP_NORMAL,
   tensors |-> << Tensor(N, 1, H, ExtOp, FALSE, b),
                  Tensor(N, 1, H, 1, TRUE, b) >>,
   ops |-> << Op("NoSplit", <<1>>, <<2>>) >>,
   group_ins |-> <<1>>, group_outs |-> <<2>>]

\* the first operation has no backward rule and a primary input of batch 1
\* an operation without a backward rule, between two elementwise ones
GroupNoRule(N, H, b) ==
  [name |-> "norule", type |-> GROUP_NORMAL,
   tensors |-> << Tensor(N, 1, H, ExtOp, FALSE, b),
                  Tensor(N, 1, H, 1, FALSE, b),
                  Tensor(N, 1, H, 2, FALSE, b),
                  Tensor(N, 1, H, 3, TRUE, b) >>,
   ops |-> << Op("Elt", <<1>>, <<2>>), Op("NoRule", <<2>>, <<3>>),
              Op("Elt", <<3>>, <<4>>) >>,
   group_ins |-> <<1>>, group_outs |-> <<4>>]

\* an elementwise chain whose input t2 is produced outside the group from
\* t1, a tensor that no operation of the group reads or writes
GroupBoundary(N, H, b) ==
  [name |-> "boundary", type |-> GROUP_NORMAL,
   tensors |-> << Tensor(N, 1, H, ExtOp, FALSE, b),
                  Tensor(N, 1, H, ExtOp, FALSE, b),
                  Tensor(N, 1, H, 1, FALSE, b),
                  Tensor(N, 1, H, 2, TRUE, b) >>,
   ops |-> << Op("Elt", <<2>>, <<3>>), Op("Elt", <<3>>, <<4>>) >>,
   group_ins |-> <<2>>, group_outs |-> <<4>>]

\* an operation that reads one tensor as both of its operands
GroupTwice(N, H, b) ==
  [name |-> "twice", type |-> GROUP_NORMAL,
   tensors |-> << Tensor(N, 1, H, ExtOp, FALSE, b),
                  Tensor(N, 1, H, 1, FALSE, b),
                  Tensor(N, 1, H, 2, TRUE, b) >>,
   ops |-> << Op("Elt", <<1>>, <<2>>), Op("Add", <<2, 2>>, <<3>>) >>,
   group_ins |-> <<1>>, group_outs |-> <<3>>]

\* an operation with two outputs, both group outputs
GroupTwoOuts(N, H, b) ==
  [name |-> "twoouts", type |-> GROUP_NORMAL,
   tensors |-> << Tensor(N, 1, H, ExtOp, FALSE, b),
                  Tensor(N, 1, H, 1, FALSE, b),
                  Tensor(N, 1, H, 2, TRUE, b),
                  Tensor(N, 1, H, 2, TRUE, b) >>,
   ops |-> << Op("Elt", <<1>>, <<2>>), Op("Elt", <<2>>, <<3, 4>>) >>,
   group_ins |-> <<1>>, group_outs |-> <<3, 4>>]

GroupWiden(N, H, b) ==
  [name |-> "widen", type |-> GROUP_NORMAL,
   tensors |-> << Tensor(1, 1, H, ExtOp, FALSE, b),
                  Tensor(N, 1, H, 1, FALSE, b),
                  Tensor(N, 1, H, 2, TRUE, b) >>,
   ops |-> << Op("NoRule", <<1>>, <<2>>), Op("Elt", <<2>>, <<3>>) >>,
   group_ins |-> <<1>>, group_outs |-> <<3>>]

Groups(N, H, b) ==
  { GroupSingle(N, H, b), GroupChain(N, H, b), GroupFork(N, H, b),
    GroupBcast(N, H, b), GroupConvW(N, H, b), GroupNoSplit(N, H, b),
    GroupNoSplitW(N, H, b), GroupOutMid(N, H, b),
    GroupConvWSmallC(N, H, b) }

SeqToSet(s) == { s[i] : i \in 1..Len(s) }

\* module::isWeight / top::WeightOp, top::NoneOp defining operations
isWeight(g, v) == g.tensors[v].def = WeightOp
isNone(g, v) == g.tensors[v].def = NoneOp

\* get_input_values / get_output_values: operands and results that are not
\* of NoneType
RECURSIVE DropNone(_, _)
DropNone(g, vs) ==
  IF vs = << >> THEN << >>
  ELSE IF isNone(g, Head(vs)) THEN DropNone(g, Tail(vs))
       ELSE << Head(vs) >> \o DropNone(g, Tail(vs))

get_input_values(g, op) == DropNone(g, g.ops[op].ins)
get_output_values(g, op) == DropNone(g, g.ops[op].outs)

\* Value::getUsers restricted to the operations of the group
GroupUsers(g, v) == { o \in 1..Len(g.ops) : v \in SeqToSet(g.ops[o].ins) }

isBinary(g, op) == g.ops[op].kind \in {"Add", "Div"}

\* LocalGenInterface::AllowDataSplit(2, type)
AllowDataSplit(g, op) == g.ops[op].kind # "NoSplit"

(***************************************************************************)
(* get_group_max_secs                                                      *)
(***************************************************************************)
\* std::min(max_hsecs, h) of line 43: acc.hmax tells that max_hsecs still
\* holds llvm::maxIntN(64), which no int64_t h exceeds
Min64(acc, h) == IF acc.hmax THEN h ELSE Min(acc.hsecs, h)

\* variant: the height bound is that of the last output seen
RECURSIVE MaxSecsOuts_LastWins(_, _, _, _, _)
MaxSecsOuts_LastWins(g, arch, op, vs, acc) ==
  IF vs = << >> THEN acc
  ELSE LET v == g.tensors[Head(vs)]
           n_align == IF arch.ALIGN_4N THEN 32 \div v.bits ELSE acc.n_align
           mn == Min(acc.nsecs, ceiling_func(v.n, n_align))
           mh == IF AllowDataSplit(g, op) THEN v.h ELSE 1
       IN MaxSecsOuts_LastWins(g, arch, op, Tail(vs),
                               [nsecs |-> mn, hsecs |-> mh, hmax |-> FALSE,
                                n_align |-> n_align])

\* variant: the batch bound ignores the packing of narrow data types
RECURSIVE MaxSecsOuts_NoAlign(_, _, _, _, _)
MaxSecsOuts_NoAlign(g, arch, op, vs, acc) ==
  IF vs = << >> THEN acc
  ELSE LET v == g.tensors[Head(vs)]
           mn == Min(acc.nsecs, v.n)
           mh == IF AllowDataSplit(g, op) THEN Min64(acc, v.h) ELSE 1
       IN MaxSecsOuts_NoAlign(g, arch, op, Tail(vs),
                              [nsecs |-> mn, hsecs |-> mh, hmax |-> FALSE,
                               n_align |-> 1])

RECURSIVE MaxSecsOuts(_, _, _, _, _)
MaxSecsOuts(g, arch, op, vs, acc) ==
  IF vs = << >> THEN acc
  ELSE LET v == g.tensors[Head(vs)]
           n_align == IF arch.ALIGN_4N THEN 32 \div v.bits ELSE acc.n_align
           mn == Min(acc.nsecs, ceiling_func(v.n, n_align))
           mh == IF AllowDataSplit(g, op) THEN Min64(acc, v.h) ELSE 1
       IN MaxSecsOuts(g, arch, op, Tail(vs),
                      [nsecs |-> mn, hsecs |-> mh, hmax |-> FALSE,
                       n_align |-> n_align])

RECURSIVE MaxSecsOps(_, _, _, _)
MaxSecsOps(g, arch, op, acc) ==
  IF op > Len(g.ops) THEN acc
  ELSE MaxSecsOps(g, arch, op + 1,
                  MaxSecsOuts(g, arch, op, get_output_values(g, op), acc))

\* lines 21-29: the batch extent max_nsecs starts from
SeedN(g) ==
  LET n0 == g.tensors[g.ops[1].ins[1]].n
  IN IF isBinary(g, 1) THEN Max(g.tensors[g.ops[1].ins[2]].n, n0) ELSE n0

get_group_max_secs(g, arch) ==
  LET max_nsecs == SeedN(g)
      r == MaxSecsOps(g, arch, 1,
                      [nsecs |-> max_nsecs, hsecs |-> maxIntN64, hmax |-> TRUE,
                       n_align |-> 1])
  IN [nsecs |-> r.nsecs, hsecs |-> r.hsecs]

(***************************************************************************)
(* Slice info                                                              *)
(***************************************************************************)
is_same_slice(a, b) == (a[1] = b[1]) /\ (a[2] = b[2])

\* variant: only the numbers of pairs are compared
is_same_slice_info_SizesOnly(si0, si1) ==
  Len(si0.n) = Len(si1.n) /\ Len(si0.h) = Len(si1.h)

\* variant: the height pairs are not compared
is_same_slice_info_BatchOnly(si0, si1) ==
  IF Len(si0.n) # Len(si1.n) \/ Len(si0.h) # Len(si1.h) THEN FALSE
  ELSE \A i \in 1..Len(si0.n) : is_same_slice(si0.n[i], si1.n[i])

is_same_slice_info(si0, si1) ==
  IF Len(si0.n) # Len(si1.n) \/ Len(si0.h) # Len(si1.h) THEN FALSE
  ELSE /\ \A i \in 1..Len(si0.n) : is_same_slice(si0.n[i], si1.n[i])
       /\ \A i \in 1..Len(si0.h) : is_same_slice(si0.h[i], si1.h[i])

\* variant: every piece has length floor(n/secs), the last one takes the rest
OutSlicePair_LastAbsorbs(n, secs, i) ==
  LET step == n \div secs
      idx == step * i
  IN << idx, IF i = secs - 1 THEN n - idx ELSE step >>

\* variant: the remainder goes to the last n % secs pieces
OutSlicePair_RemainderLast(n, secs, i) ==
  LET first == secs - (n % secs)
      step == (n \div secs) + (IF i >= first THEN 1 ELSE 0)
      idx == (n \div secs) * i + (IF i >= first THEN i - first ELSE 0)
  IN << idx, step >>

\* variant: every piece has length floor(n/secs), the remainder is dropped
OutSlicePair_DropRemainder(n, secs, i) ==
  << (n \div secs) * i, n \div secs >>

\* one dimension of get_out_slice_info: the pairs of extent n cut in secs
OutSlicePair(n, secs, i) ==
  LET step == (n \div secs) + (IF (n % secs) > i THEN 1 ELSE 0)
      idx == (n \div secs) * i + (IF (n % secs) > i THEN i ELSE n % secs)
      slice == IF (n - idx) > step THEN step ELSE n - idx
  IN << idx, slice >>

OutSlices(n, secs) == [ k \in 1..secs |-> OutSlicePair(n, secs, k - 1) ]

get_out_slice_info(shape_secs, n, h) ==
  [n |-> OutSlices(n, shape_secs.nsecs), h |-> OutSlices(h, shape_secs.hsecs)]

(***************************************************************************)
(* Backward maps of the operations (LocalGenInterface::BackwardN/H).       *)
(* Elementwise and binary operations map a slice to itself; a convolution  *)
(* maps it through stride, kernel and padding and clips it to the input;   *)
(* an operation without a rule fails.                                      *)
(***************************************************************************)
fixSlice(in_idx, in_slice, in_length, last) ==
  LET end0 == in_idx + in_slice
      idx == IF in_idx < 0 THEN 0 ELSE in_idx
      end1 == IF end0 > in_length \/ last THEN in_length ELSE end0
  IN << idx, end1 - idx >>

BackwardN(g, op, out_idx, out_slice) ==
  IF g.ops[op].kind = "NoRule" THEN [ok |-> FALSE, idx |-> 0, slice |-> 0]
  ELSE [ok |-> TRUE, idx |-> out_idx, slice |-> out_slice]

BackwardH(g, op, out_idx, out_slice) ==
  LET o == g.ops[op] IN
  CASE o.kind = "NoRule" -> [ok |-> FALSE, idx |-> 0, slice |-> 0]
    [] o.kind = "Conv" ->
         LET in_slice == (out_slice - 1) * o.sh + (IF o.kh >= o.sh THEN o.kh ELSE o.sh)
             in_idx == out_idx * o.sh - o.ph
             oh == g.tensors[o.outs[1]].h
             ih == g.tensors[o.ins[1]].h
             f == fixSlice(in_idx, in_slice, ih, out_idx + out_slice = oh)
         IN [ok |-> TRUE, idx |-> f[1], slice |-> f[2]]
    [] OTHER -> [ok |-> TRUE, idx |-> out_idx, slice |-> out_slice]

(***************************************************************************)
(* is_broadcast_binary                                                     *)
(***************************************************************************)
is_broadcast_binary(g, op, in) ==
  IF g.ops[op].kind # "Add" THEN FALSE
  ELSE LET o == g.ops[op]
           other == IF in = o.ins[1] THEN o.ins[2] ELSE o.ins[1]
           a == g.tensors[in]
           b == g.tensors[other]
       IN \/ (a.n # b.n /\ a.n = 1)
          \/ (a.c # b.c /\ a.c = 1)
          \/ (a.h # b.h /\ a.h = 1)

(***************************************************************************)
(* get_backward_slice_info                                                 *)
(***************************************************************************)
\* variant: a zero-length batch slice is accepted
RECURSIVE BackwardNLoop_KeepZero(_, _, _, _, _)
BackwardNLoop_KeepZero(g, op, bcast1, out_n, acc) ==
  IF out_n = << >> THEN [ok |-> TRUE, s |-> acc]
  ELSE LET s == Head(out_n)
           ret == BackwardN(g, op, s[1], s[2])
       IN IF bcast1
          THEN BackwardNLoop_KeepZero(g, op, bcast1, Tail(out_n),
                                      Append(acc, << 0, 1 >>))
          ELSE IF ~ret.ok
               THEN [ok |-> FALSE, s |-> acc]
               ELSE BackwardNLoop_KeepZero(g, op, bcast1, Tail(out_n),
                                           Append(acc, << ret.idx, ret.slice >>))

RECURSIVE BackwardNLoop(_, _, _, _, _)
BackwardNLoop(g, op, bcast1, out_n, acc) ==
  IF out_n = << >> THEN [ok |-> TRUE, s |-> acc]
  ELSE LET s == Head(out_n)
           ret == BackwardN(g, op, s[1], s[2])
       IN IF bcast1
          THEN BackwardNLoop(g, op, bcast1, Tail(out_n), Append(acc, << 0, 1 >>))
          ELSE IF ~ret.ok \/ ret.slice = 0
               THEN [ok |-> FALSE, s |-> acc]
               ELSE BackwardNLoop(g, op, bcast1, Tail(out_n),
                                  Append(acc, << ret.idx, ret.slice >>))

RECURSIVE BackwardHLoop(_, _, _, _, _, _, _)
BackwardHLoop(g, op, bcast1, out_h, i, pre_end_idx, acc) ==
  IF i > Len(out_h) THEN [ok |-> TRUE, s |-> acc]
  ELSE LET s == out_h[i]
           ret == BackwardH(g, op, s[1], s[2])
       IN IF bcast1
          THEN BackwardHLoop(g, op, bcast1, out_h, i + 1, 1,
                             Append(acc, << 0, 1 >>))
          ELSE LET end_reached == (ret.idx + ret.slice = pre_end_idx)
               IN IF ~ret.ok \/ ret.slice = 0 \/ (ret.idx = 0 /\ i > 1)
                     \/ end_reached
                  THEN [ok |-> FALSE, s |-> acc]
                  ELSE BackwardHLoop(g, op, bcast1, out_h, i + 1,
                                     ret.idx + ret.slice,
                                     Append(acc, << ret.idx, ret.slice >>))

\* variant: a failing backward map falls back to the full extent
get_backward_slice_info_Default(out_si, g, op, in, shape_secs) ==
  LET n == g.tensors[in].n
      h == g.tensors[in].h
      is_broadcast_tensor == is_broadcast_binary(g, op, in)
      rn == IF shape_secs.nsecs = 1
            THEN [ok |-> TRUE, s |-> << << 0, n >> >>]
            ELSE BackwardNLoop(g, op, is_broadcast_tensor /\ n = 1, out_si.n, << >>)
      rh == IF shape_secs.hsecs = 1
            THEN [ok |-> TRUE, s |-> << << 0, h >> >>]
            ELSE BackwardHLoop(g, op, is_broadcast_tensor /\ h = 1, out_si.h, 1,
                               0, << >>)
  IN [ok |-> TRUE,
      si |-> [n |-> IF rn.ok THEN rn.s ELSE << << 0, n >> >>,
              h |-> IF rh.ok THEN rh.s ELSE << << 0, h >> >>]]

get_backward_slice_info(out_si, g, op, in, shape_secs) ==
  LET n == g.tensors[in].n
      h == g.tensors[in].h
      is_broadcast_tensor == is_broadcast_binary(g, op, in)
      rn == IF shape_secs.nsecs = 1
            THEN [ok |-> TRUE, s |-> << << 0, n >> >>]
            ELSE BackwardNLoop(g, op, is_broadcast_tensor /\ n = 1, out_si.n, << >>)
      rh == IF shape_secs.hsecs = 1
            THEN [ok |-> TRUE, s |-> << << 0, h >> >>]
            ELSE BackwardHLoop(g, op, is_broadcast_tensor /\ h = 1, out_si.h, 1,
                               0, << >>)
  IN IF ~rn.ok THEN [ok |-> FALSE, si |-> [n |-> rn.s, h |-> << >>]]
     ELSE [ok |-> rh.ok, si |-> [n |-> rn.s, h |-> rh.s]]

(***************************************************************************)
(* check_hsecs                                                             *)
(***************************************************************************)
RECURSIVE SumLen(_)
SumLen(ps) == IF ps = << >> THEN 0 ELSE Head(ps)[2] + SumLen(Tail(ps))

\* The set of outcomes the builds can produce: line 342 is
\* assert(si.h.size() > 0), so on a record without a height pair a build
\* with assertions aborts and a build with NDEBUG goes on and returns true.
check_hsecs(g, value, si) ==
  IF Len(si.h) = 0 THEN {"abort", "true"}
  ELSE IF SumLen(si.h) * 2 > g.tensors[value].h * 3 THEN {"false"}
       ELSE {"true"}

(***************************************************************************)
(* strip_back_judge                                                        *)
(***************************************************************************)
\* variant: the in-group users are not required to have been visited
strip_back_judge_NoLiveness(g, v, op_set, out_tensor_set) ==
  IF g.tensors[v].outer THEN v \in out_tensor_set ELSE TRUE

\* variant: a group output passes whatever its users are
strip_back_judge_OutputsExempt(g, v, op_set, out_tensor_set) ==
  IF v \in out_tensor_set THEN TRUE
  ELSE IF \E o \in GroupUsers(g, v) : op_set[o] = 0 THEN FALSE
       ELSE ~ g.tensors[v].outer

strip_back_judge(g, v, op_set, out_tensor_set) ==
  IF \E o \in GroupUsers(g, v) : op_set[o] = 0 THEN FALSE
  ELSE IF g.tensors[v].outer THEN v \in out_tensor_set
       ELSE TRUE

(***************************************************************************)
(* backward_update_slice.  st is the record of the containers the function *)
(* updates through references: tensor_infos (ti), tensor_branchs (tb) and  *)
(* op_set.                                                                 *)
(***************************************************************************)
Put(f, k, x) == [ t \in (DOMAIN f) \cup {k} |-> IF t = k THEN x ELSE f[t] ]

EmptyInfos == [ t \in {} |-> 0 ]

RECURSIVE BackwardOperands(_, _, _, _, _, _, _)
BackwardOperands(g, shape_secs, op, out_si, ins, out_tensor_set, st) ==
  IF ins = << >> THEN [ok |-> TRUE, st |-> st]
  ELSE LET in == Head(ins)
           rest == Tail(ins)
       IN IF g.tensors[in].def \in {WeightOp, NoneOp}
          THEN BackwardOperands(g, shape_secs, op, out_si, rest,
                                out_tensor_set, st)
          ELSE LET r == get_backward_slice_info(out_si, g, op, in, shape_secs)
               IN IF ~r.ok THEN [ok |-> FALSE, st |-> st]
                  ELSE IF in \in DOMAIN st.ti
                          /\ ~is_same_slice_info(r.si, st.ti[in])
                       THEN [ok |-> FALSE, st |-> st]
                       ELSE LET ti1 == IF in \in DOMAIN st.ti THEN st.ti
                                       ELSE Put(st.ti, in, r.si)
                                tb1 == IF strip_back_judge(g, in, st.op_set,
                                                           out_tensor_set)
                                       THEN Append(st.tb, in) ELSE st.tb
                            IN BackwardOperands(g, shape_secs, op, out_si, rest,
                                                out_tensor_set,
                                                [st EXCEPT !.ti = ti1,
                                                           !.tb = tb1])

\* the tensors that no operation of the group reads or writes: the
\* operands of the producers of the group inputs
OutsideTensors(g) ==
  { t \in 1..Len(g.tensors) :
      /\ GroupUsers(g, t) = {}
      /\ t \notin SeqToSet(g.group_outs)
      /\ g.tensors[t].def = ExtOp }

RECURSIVE PutAll(_, _, _)
PutAll(ti, ts, si) ==
  IF ts = {} THEN ti
  ELSE LET t == CHOOSE x \in ts : TRUE
       IN PutAll(Put(ti, t, si), ts \ {t}, si)

\* variant: a popped group input is expanded like any tensor: its producer
\* outside the group is visited and the producer's operands get a record
backward_update_slice_Crossing(g, shape_secs, out, out_tensor_set, st) ==
  IF out \in SeqToSet(g.group_ins)
  THEN [ok |-> TRUE,
        st |-> [st EXCEPT !.op_set[ExtOp] = @ + 1,
                          !.ti = PutAll(st.ti, OutsideTensors(g), st.ti[out])]]
  ELSE LET op == g.tensors[out].def
           st1 == [st EXCEPT !.op_set[op] = @ + 1]
       IN BackwardOperands(g, shape_secs, op, st1.ti[out], g.ops[op].ins,
                           out_tensor_set, st1)

\* variant: the record of a group input is tested with check_hsecs
backward_update_slice_Checked(g, shape_secs, out, out_tensor_set, st) ==
  IF out \in SeqToSet(g.group_ins)
  THEN [ok |-> check_hsecs(g, out, st.ti[out]) = {"true"}, st |-> st]
  ELSE LET op == g.tensors[out].def
           st1 == [st EXCEPT !.op_set[op] = @ + 1]
       IN BackwardOperands(g, shape_secs, op, st1.ti[out], g.ops[op].ins,
                           out_tensor_set, st1)

\* variant: a popped group input is put back on the worklist
backward_update_slice_Requeue(g, shape_secs, out, out_tensor_set, st) ==
  IF out \in SeqToSet(g.group_ins)
  THEN [ok |-> TRUE, st |-> [st EXCEPT !.tb = Append(@, out)]]
  ELSE LET op == g.tensors[out].def
           st1 == [st EXCEPT !.op_set[op] = @ + 1]
       IN BackwardOperands(g, shape_secs, op, st1.ti[out], g.ops[op].ins,
                           out_tensor_set, st1)

backward_update_slice(g, shape_secs, out, out_tensor_set, st) ==
  IF out \in SeqToSet(g.group_ins) THEN [ok |-> TRUE, st |-> st]
  ELSE LET op == g.tensors[out].def
           st1 == [st EXCEPT !.op_set[op] = @ + 1]
       IN BackwardOperands(g, shape_secs, op, st1.ti[out], g.ops[op].ins,
                           out_tensor_set, st1)

(***************************************************************************)
(* Seeding of the group outputs: stripe_mine_max_slice (bounding mode) and *)
(* stripe_mine_idx_slice (exact mode).                                     *)
(***************************************************************************)
NoOps(g) == [ o \in {ExtOp} \cup 1..Len(g.ops) |-> 0 ]

RECURSIVE SeedMax(_, _, _, _, _, _)
SeedMax(g, arch, shape_secs, outs, max_nslice, sd) ==
  IF outs = << >> THEN sd
  ELSE LET out == Head(outs)
           v == g.tensors[out]
           m0 == Max(max_nslice, ceiling_func(v.n, shape_secs.nsecs))
           m1 == IF arch.ALIGN_4N THEN align_up(m0, 32 \div v.bits) ELSE m0
           max_hslice == (v.h + shape_secs.hsecs - 1) \div shape_secs.hsecs
           si == [n |-> << << 0, m1 >> >>, h |-> << << 0, max_hslice >> >>]
           ots == sd.ots \cup {out}
           tb == IF strip_back_judge(g, out, NoOps(g), ots)
                 THEN Append(sd.tb, out) ELSE sd.tb
       IN SeedMax(g, arch, shape_secs, Tail(outs), m1,
                  [ti |-> Put(sd.ti, out, si), tb |-> tb, ots |-> ots])

RECURSIVE SeedIdx(_, _, _, _)
SeedIdx(g, shape_secs, outs, sd) ==
  IF outs = << >> THEN sd
  ELSE LET out == Head(outs)
           v == g.tensors[out]
           si == get_out_slice_info(shape_secs, v.n, v.h)
           ots == sd.ots \cup {out}
           tb == IF strip_back_judge(g, out, NoOps(g), ots)
                 THEN Append(sd.tb, out) ELSE sd.tb
       IN SeedIdx(g, shape_secs, Tail(outs),
                  [ti |-> Put(sd.ti, out, si), tb |-> tb, ots |-> ots])

\* variant: the map is not cleared
ClearedInfos_Keep(ti) == ti

\* variant: only the records with a single pair on both dimensions are dropped
ClearedInfos_KeepSplit(ti) ==
  [ t \in { k \in DOMAIN ti : Len(ti[k].n) > 1 \/ Len(ti[k].h) > 1 } |-> ti[t] ]

\* tensor_infos.clear() (lines 171, 405, 458)
ClearedInfos(ti) == EmptyInfos

\* the seeding starts from the cleared map
StartSeed(ti) == [ti |-> ClearedInfos(ti), tb |-> << >>, ots |-> {}]

(***************************************************************************)
(* The whole of a propagation run: the worklist loop (lines 434-443 and    *)
(* 475-486) after the seeding.  The result is the return value and the     *)
(* tensor-record map the run leaves behind.                                *)
(***************************************************************************)
RECURSIVE Worklist(_, _, _, _)
Worklist(g, shape_secs, out_tensor_set, st) ==
  IF st.tb = << >> THEN [ok |-> TRUE, ti |-> st.ti]
  ELSE LET r == backward_update_slice(g, shape_secs, Head(st.tb),
                                      out_tensor_set,
                                      [st EXCEPT !.tb = Tail(st.tb)])
       IN IF ~r.ok THEN [ok |-> FALSE, ti |-> r.st.ti]
          ELSE Worklist(g, shape_secs, out_tensor_set, r.st)

stripe_mine_max_slice(g, arch, shape_secs, ti) ==
  IF Len(g.ops) = 1 THEN [ok |-> TRUE, ti |-> ti]
  ELSE LET sd == SeedMax(g, arch, shape_secs, g.group_outs, 0, StartSeed(ti))
       IN Worklist(g, shape_secs, sd.ots,
                   [ti |-> sd.ti, tb |-> sd.tb, op_set |-> NoOps(g)])

stripe_mine_idx_slice(g, shape_secs, ti) ==
  IF Len(g.ops) = 1 THEN [ok |-> TRUE, ti |-> ti]
  ELSE LET sd == SeedIdx(g, shape_secs, g.group_outs, StartSeed(ti))
       IN Worklist(g, shape_secs, sd.ots,
                   [ti |-> sd.ti, tb |-> sd.tb, op_set |-> NoOps(g)])

(***************************************************************************)
(* Time steps of a group: one load step, one step per operation, one store *)
(* step.  A tensor is held from the step that produces it to the step of   *)
(* its last user; a weight is loaded in the last step for the next slice   *)
(* and held across the boundary (start_ts > end_ts).                       *)
(***************************************************************************)
timestep_num(g) == Len(g.ops) + 2

SetMax(S) == CHOOSE x \in S : \A y \in S : y <= x

lmem_buffer(g) ==
  [ v \in 1..Len(g.tensors) |->
      LET t == g.tensors[v]
          last == IF t.outer THEN timestep_num(g) - 1
                  ELSE SetMax(GroupUsers(g, v) \cup {0})
      IN IF t.def = WeightOp
         THEN [start_ts |-> timestep_num(g) - 1, end_ts |-> last]
         ELSE [start_ts |-> IF t.def > 0 THEN t.def ELSE 0, end_ts |-> last] ]

(***************************************************************************)
(* get_max_slice_nh, get_buffer_size                                       *)
(***************************************************************************)
RECURSIVE MaxLen(_)
MaxLen(ps) == IF ps = << >> THEN 0 ELSE Max(Head(ps)[2], MaxLen(Tail(ps)))

get_max_slice_nh(slice_info) ==
  [nslice |-> MaxLen(slice_info.n), hslice |-> MaxLen(slice_info.h)]

\* Arch::get_tensor_lmem_bytes for a slice of nslice x hslice rows
get_tensor_lmem_bytes(g, v, nslice, hslice) == nslice * hslice * g.tensors[v].row

\* Arch::get_weight_lmem_bytes
get_weight_lmem_bytes(g, v) == g.tensors[v].wbytes

get_buffer_size(g, v, ti) ==
  IF isWeight(g, v)
  THEN IF g.type = GROUP_SMALL_C
       THEN get_tensor_lmem_bytes(g, v, g.tensors[v].n, g.tensors[v].h)
       ELSE get_weight_lmem_bytes(g, v)
  ELSE LET si == IF v \in DOMAIN ti THEN ti[v] ELSE [n |-> << >>, h |-> << >>]
           m == get_max_slice_nh(si)
       IN get_tensor_lmem_bytes(g, v, m.nslice, m.hslice)

\* BasicTimeStep::update_all_mem_buffer_size: the size of every buffer
update_all_mem_buffer_size(g, ti) ==
  [ v \in 1..Len(g.tensors) |-> get_buffer_size(g, v, ti) ]

(***************************************************************************)
(* get_split_max_secs                                                      *)
(***************************************************************************)
\* variant: a wrapping buffer is added to every step
ReqSteps_WrapAll(T, start_ts, end_ts) ==
  IF start_ts <= end_ts THEN start_ts..end_ts ELSE 0..(T - 1)

\* the steps the lambda update_lmem_req adds the size of a buffer to
ReqSteps(T, start_ts, end_ts) ==
  IF start_ts <= end_ts THEN start_ts..end_ts
  ELSE (0..end_ts) \cup (start_ts..(T - 1))

RECURSIVE SumSizes(_, _, _, _, _)
SumSizes(T, bufs, sizes, ts, v) ==
  IF v > Len(bufs) THEN 0
  ELSE (IF ts \in ReqSteps(T, bufs[v].start_ts, bufs[v].end_ts)
        THEN sizes[v] ELSE 0) + SumSizes(T, bufs, sizes, ts, v + 1)

lmem_req(T, bufs, sizes) == [ ts \in 0..(T - 1) |-> SumSizes(T, bufs, sizes, ts, 1) ]

\* variant: the peak is divided rounding down
get_split_max_secs_Floor(T, bufs, sizes, LMEM_BYTES) ==
  LET req == lmem_req(T, bufs, sizes)
      peak == SetMax({ req[ts] : ts \in 0..(T - 1) })
  IN peak \div LMEM_BYTES

get_split_max_secs(T, bufs, sizes, LMEM_BYTES) ==
  LET req == lmem_req(T, bufs, sizes)
      peak == SetMax({ req[ts] : ts \in 0..(T - 1) })
  IN ceiling_func(peak, LMEM_BYTES)

\* the required-section count of the group for the records ti
MeasuredSecs(g, arch, ti) ==
  get_split_max_secs(timestep_num(g), lmem_buffer(g),
                     update_all_mem_buffer_size(g, ti), arch.LMEM_BYTES)

(***************************************************************************)
(* init_group_data_secs: the starting split factors                        *)
(***************************************************************************)
\* LocalGenInterface::getBufferSize: the scratch buffer of an operation
getBufferSize(g, op) == 0

\* lines 77-84: the operands after the first
RECURSIVE ExtraInsSize(_, _)
ExtraInsSize(g, ins) ==
  IF ins = << >> THEN 0
  ELSE LET in == Head(ins)
           t == g.tensors[in]
       IN (IF isWeight(g, in) THEN get_weight_lmem_bytes(g, in)
           ELSE get_tensor_lmem_bytes(g, in, t.n, t.h))
            + ExtraInsSize(g, Tail(ins))

\* lines 85-89: the results after the first
RECURSIVE ExtraOutsSize(_, _)
ExtraOutsSize(g, outs) ==
  IF outs = << >> THEN 0
  ELSE LET t == g.tensors[Head(outs)]
       IN get_tensor_lmem_bytes(g, Head(outs), t.n, t.h)
            + ExtraOutsSize(g, Tail(outs))

\* lines 65-89: total_size of one operation
OpTotalSize(g, op) ==
  LET ins == get_input_values(g, op)
      outs == get_output_values(g, op)
      i0 == g.tensors[ins[1]]
      o0 == g.tensors[outs[1]]
  IN get_tensor_lmem_bytes(g, ins[1], i0.n, i0.h)
       + get_tensor_lmem_bytes(g, outs[1], o0.n, o0.h)
       + getBufferSize(g, op)
       + ExtraInsSize(g, Tail(ins)) + ExtraOutsSize(g, Tail(outs))

\* lines 92-97: the running split factors after one more operation
RaiseSecs(secs, max_secs, total_size, LMEM_BYTES) ==
  LET total_secs == ceiling_func(total_size, LMEM_BYTES)
      n1 == Max(Min(total_secs, max_secs.nsecs), secs.nsecs)
      rest == ceiling_func(total_secs, n1)
  IN [nsecs |-> n1, hsecs |-> Max(rest, secs.hsecs)]

\* lines 63-98: the running split factors after each operation
RECURSIVE InitSecsTrace(_, _, _, _, _)
InitSecsTrace(g, arch, op, max_secs, acc) ==
  IF op > Len(g.ops) THEN acc
  ELSE InitSecsTrace(g, arch, op + 1, max_secs,
         Append(acc, RaiseSecs(acc[Len(acc)], max_secs, OpTotalSize(g, op),
                               arch.LMEM_BYTES)))

init_group_data_secs(g, arch) ==
  IF Len(g.ops) = 1 THEN << [nsecs |-> 1, hsecs |-> 1] >>
  ELSE InitSecsTrace(g, arch, 1, get_group_max_secs(g, arch),
                     << [nsecs |-> 1, hsecs |-> 1] >>)

(***************************************************************************)
(* update_tensor_infos: a record of full extent for every weight operand.  *)
(* A record of the model is the slice info of the tensor_info_t; the flags *)
(* eu_align, need_bcast and use_3ic_opt, which no step of the search       *)
(* reads, are not part of it.                                              *)
(***************************************************************************)
\* variant: the height of the weight is recorded on both dimensions
RECURSIVE WeightInfosIns_HeightOnly(_, _, _)
WeightInfosIns_HeightOnly(g, ins, ti) ==
  IF ins = << >> THEN ti
  ELSE LET in == Head(ins)
           t == g.tensors[in]
       IN WeightInfosIns_HeightOnly(g, Tail(ins),
            IF t.def = WeightOp
            THEN Put(ti, in, [n |-> << << 0, t.h >> >>, h |-> << << 0, t.h >> >>])
            ELSE ti)

RECURSIVE WeightInfosIns(_, _, _)
WeightInfosIns(g, ins, ti) ==
  IF ins = << >> THEN ti
  ELSE LET in == Head(ins)
           t == g.tensors[in]
       IN WeightInfosIns(g, Tail(ins),
            IF t.def = WeightOp
            THEN Put(ti, in, [n |-> << << 0, t.n >> >>, h |-> << << 0, t.h >> >>])
            ELSE ti)

RECURSIVE WeightInfosOps(_, _, _)
WeightInfosOps(g, op, ti) ==
  IF op > Len(g.ops) THEN ti
  ELSE WeightInfosOps(g, op + 1, WeightInfosIns(g, get_input_values(g, op), ti))

update_tensor_infos(g, ti) == WeightInfosOps(g, 1, ti)

(***************************************************************************)
(* State                                                                   *)
(***************************************************************************)
VARIABLES
  lg,              \* the group under analysis (LgInfo)
  arch,            \* Arch::ALIGN_4N, Arch::LMEM_BYTES
  pc,              \* position of the running call
  call,            \* the function called last: "uds", "max" or "idx"
  accepted,        \* the call runs on the split update_data_split returned
  nsec,            \* loop variable of update_data_split
  iter_n,          \* shape_secs.nsecs at the start of the current iteration
  shape_secs,      \* the split factors {nsecs, hsecs}
  max_shape_secs,  \* the ceiling of get_group_max_secs
  status,          \* local of update_data_split
  total_secs,      \* local of update_data_split, -1 before it is measured
  tensor_infos,    \* the tensor-record map of the time step
  tensor_branchs,  \* the worklist
  op_set,          \* the visited operations (a multiset)
  out_tensor_set,  \* the group outputs seeded so far
  prop_ret,        \* result of the last propagation run
  ret,             \* result of the last call
  fin,             \* arguments of a function evaluated on its own
  fout             \* its result

vars == << lg, arch, pc, call, accepted, nsec, iter_n, shape_secs,
           max_shape_secs, status, total_secs, tensor_infos, tensor_branchs,
           op_set, out_tensor_set, prop_ret, ret, fin, fout >>

Archs ==
  { [ALIGN_4N |-> a[1], bits |-> a[2], LMEM_BYTES |-> m] :
      a \in { << FALSE, 32 >>, << TRUE, 16 >> }, m \in {2, 6, 64} }

NoArg == [fn |-> "none"]

Init ==
  /\ arch \in Archs
  /\ \E N \in 1..MaxN, H \in 1..MaxH : lg \in Groups(N, H, arch.bits)
  /\ pc = "idle"
  /\ call = "none"
  /\ accepted = FALSE
  /\ nsec = 0
  /\ iter_n = 0
  /\ shape_secs = [nsecs |-> 1, hsecs |-> 1]
  /\ max_shape_secs = [nsecs |-> 0, hsecs |-> 0]
  /\ status = FALSE
  /\ total_secs = 0 - 1
  /\ tensor_infos = EmptyInfos
  /\ tensor_branchs = << >>
  /\ op_set = NoOps(lg)
  /\ out_tensor_set = {}
  /\ prop_ret = "none"
  /\ ret = "none"
  /\ fin = NoArg
  /\ fout = NoArg

(***************************************************************************)
(* update_data_split                                                       *)
(***************************************************************************)
\* lines 164-168: entry of update_data_split
CallUDS ==
  /\ pc = "idle"
  /\ call' = "uds"
  /\ accepted' = FALSE
  /\ shape_secs' = [nsecs |-> 1, hsecs |-> 1]
  /\ status' = FALSE
  /\ max_shape_secs' = get_group_max_secs(lg, arch)
  /\ nsec' = 1
  /\ iter_n' = 0
  /\ total_secs' = 0 - 1
  /\ tensor_branchs' = << >>
  /\ op_set' = NoOps(lg)
  /\ out_tensor_set' = {}
  /\ prop_ret' = "none"
  /\ ret' = "none"
  /\ pc' = "uds_for"
  /\ UNCHANGED << lg, arch, tensor_infos, fin, fout >>

\* lines 169-172: loop test, the candidate, and the seeding part of
\* stripe_mine_max_slice (lines 402-432)
UdsFor ==
  /\ pc = "uds_for"
  /\ IF nsec <= max_shape_secs.nsecs
     THEN LET secs == [shape_secs EXCEPT !.nsecs = nsec]
              sd == SeedMax(lg, arch, secs, lg.group_outs, 0,
                            StartSeed(tensor_infos))
          IN /\ shape_secs' = secs
             /\ iter_n' = nsec
             /\ IF Len(lg.ops) = 1
                THEN /\ tensor_infos' = ClearedInfos(tensor_infos)
                     /\ tensor_branchs' = << >>
                     /\ out_tensor_set' = {}
                     /\ prop_ret' = "ok"
                     /\ pc' = "uds_measure"
                ELSE /\ tensor_infos' = sd.ti
                     /\ tensor_branchs' = sd.tb
                     /\ out_tensor_set' = sd.ots
                     /\ prop_ret' = "none"
                     /\ pc' = "prop"
             /\ op_set' = NoOps(lg)
     ELSE /\ pc' = "uds_exit"
          /\ UNCHANGED << shape_secs, iter_n, tensor_infos, tensor_branchs,
                          out_tensor_set, prop_ret, op_set >>
  /\ UNCHANGED << lg, arch, call, accepted, nsec, max_shape_secs, status,
                  total_secs, ret, fin, fout >>

\* variant: h-sections rounded down
NewSecs_FloorH(secs, max_secs, total) ==
  LET n1 == Max(secs.nsecs, Min(max_secs.nsecs, total))
  IN [nsecs |-> n1, hsecs |-> total \div n1]

\* variant: the candidate n is not kept as the lower bound
NewSecs_NoKeep(secs, max_secs, total) ==
  LET n1 == Max(1, Min(max_secs.nsecs, total))
  IN [nsecs |-> n1, hsecs |-> ceiling_func(total, n1)]

\* variant: the batch sections are left alone and the height takes it all
NewSecs_HeightFirst(secs, max_secs, total) ==
  [nsecs |-> secs.nsecs, hsecs |-> ceiling_func(total, secs.nsecs)]

\* variant: the batch sections go straight to their ceiling
NewSecs_ToCeiling(secs, max_secs, total) ==
  LET n1 == Max(secs.nsecs, max_secs.nsecs)
  IN [nsecs |-> n1, hsecs |-> ceiling_func(total, n1)]

\* lines 178-180: the split factors for total_secs required sections
NewSecs(secs, max_secs, total) ==
  LET n1 == Max(secs.nsecs, Min(max_secs.nsecs, total))
  IN [nsecs |-> n1, hsecs |-> ceiling_func(total, n1)]

\* variant: the loop variable is not advanced
NextCandidate_Stuck(n) == n

\* line 169: the next candidate of the loop (++nsec)
NextCandidate(n) == n + 1

\* lines 175-184: buffer sizes, required sections, the new split factors
UdsMeasure ==
  /\ pc = "uds_measure"
  /\ LET total == MeasuredSecs(lg, arch, tensor_infos)
         new == NewSecs(shape_secs, max_shape_secs, total)
     IN /\ total_secs' = total
        /\ shape_secs' = new
        /\ IF new.hsecs <= max_shape_secs.hsecs
           THEN /\ status' = TRUE
                /\ pc' = "uds_exit"
                /\ nsec' = nsec
           ELSE /\ status' = status
                /\ pc' = "uds_for"
                /\ nsec' = NextCandidate(nsec)
  /\ UNCHANGED << lg, arch, call, accepted, iter_n, max_shape_secs,
                  tensor_infos, tensor_branchs, op_set, out_tensor_set,
                  prop_ret, ret, fin, fout >>

\* lines 186-187: the weight records and the return
UdsExit ==
  /\ pc = "uds_exit"
  /\ tensor_infos' = update_tensor_infos(lg, tensor_infos)
  /\ ret' = IF status THEN "ok" ELSE "fail"
  /\ pc' = "idle"
  /\ UNCHANGED << lg, arch, call, accepted, nsec, iter_n, shape_secs,
                  max_shape_secs, status, total_secs, tensor_branchs, op_set,
                  out_tensor_set, prop_ret, fin, fout >>

(***************************************************************************)
(* stripe_mine_max_slice and stripe_mine_idx_slice called on their own     *)
(***************************************************************************)
Candidates(minh) ==
  { [nsecs |-> n, hsecs |-> h] : n \in 1..MaxN, h \in minh..MaxH }
    \cup (IF call = "uds" /\ ret = "ok" /\ shape_secs.hsecs >= minh
          THEN {shape_secs} ELSE {})

CallProp(fn, secs, sd) ==
  /\ pc = "idle"
  /\ call' = fn
  /\ accepted' = (call = "uds" /\ ret = "ok" /\ secs = shape_secs)
  /\ shape_secs' = secs
  /\ IF Len(lg.ops) = 1
     THEN /\ prop_ret' = "ok"
          /\ ret' = "ok"
          /\ pc' = "idle"
          /\ UNCHANGED << tensor_infos, tensor_branchs, out_tensor_set >>
     ELSE /\ tensor_infos' = sd.ti
          /\ tensor_branchs' = sd.tb
          /\ out_tensor_set' = sd.ots
          /\ prop_ret' = "none"
          /\ ret' = "none"
          /\ pc' = "prop"
  /\ op_set' = NoOps(lg)
  /\ nsec' = 0
  /\ iter_n' = 0
  /\ status' = FALSE
  /\ total_secs' = 0 - 1
  /\ UNCHANGED << lg, arch, max_shape_secs, fin, fout >>

\* lines 402-432
CallMax ==
  \E secs \in Candidates(1) :
    CallProp("max", secs, SeedMax(lg, arch, secs, lg.group_outs, 0,
                                  StartSeed(tensor_infos)))

\* lines 455-473
CallIdx ==
  \E secs \in Candidates(0) :
    CallProp("idx", secs, SeedIdx(lg, secs, lg.group_outs,
                                  StartSeed(tensor_infos)))

(***************************************************************************)
(* The worklist loop (lines 434-443, 475-486): one pop and one call of     *)
(* backward_update_slice; a failure ends the run and, inside               *)
(* update_data_split, the search (line 173).                               *)
(***************************************************************************)
\* variant: update_data_split goes on with the search after a failure
PropFailedPc_Retry(c) == IF c = "uds" THEN "uds_for" ELSE "idle"

\* lines 172-174, 440-442, 481-483: a failed run returns false, and so does
\* update_data_split when it made the run
PropFailedPc(c) == "idle"

Pop ==
  /\ pc = "prop"
  /\ tensor_branchs # << >>
  /\ LET r == backward_update_slice(lg, shape_secs, Head(tensor_branchs),
                                    out_tensor_set,
                                    [ti |-> tensor_infos,
                                     tb |-> Tail(tensor_branchs),
                                     op_set |-> op_set])
     IN /\ tensor_infos' = r.st.ti
        /\ tensor_branchs' = r.st.tb
        /\ op_set' = r.st.op_set
        /\ IF r.ok
           THEN UNCHANGED << pc, prop_ret, ret >>
           ELSE /\ prop_ret' = "fail"
                /\ ret' = "fail"
                /\ pc' = PropFailedPc(call)
  /\ UNCHANGED << lg, arch, call, accepted, nsec, iter_n, shape_secs,
                  max_shape_secs, status, total_secs, out_tensor_set,
                  fin, fout >>

\* the worklist is empty: the propagation returns true
PropDone ==
  /\ pc = "prop"
  /\ tensor_branchs = << >>
  /\ prop_ret' = "ok"
  /\ IF call = "uds"
     THEN /\ pc' = "uds_measure"
          /\ ret' = ret
     ELSE /\ pc' = "idle"
          /\ ret' = "ok"
  /\ UNCHANGED << lg, arch, call, accepted, nsec, iter_n, shape_secs,
                  max_shape_secs, status, total_secs, tensor_infos,
                  tensor_branchs, op_set, out_tensor_set, fin, fout >>

Next ==
  \/ CallUDS
  \/ UdsFor
  \/ UdsMeasure
  \/ UdsExit
  \/ CallMax
  \/ CallIdx
  \/ Pop
  \/ PropDone

Spec == Init /\ [][Next]_vars

TypeOK ==
  /\ pc \in {"idle", "uds_for", "prop", "uds_measure", "uds_exit"}
  /\ call \in {"none", "uds", "max", "idx"}
  /\ ret \in {"none", "ok", "fail"}

(***************************************************************************)
(* The program runs to completion: every step of a running call is taken.  *)
(***************************************************************************)
NextUds ==
  \/ CallUDS
  \/ UdsFor
  \/ UdsMeasure
  \/ UdsExit
  \/ Pop
  \/ PropDone

\* a step of the running call
RunStep == UdsFor \/ UdsMeasure \/ UdsExit \/ Pop \/ PropDone

FairSpec == Init /\ [][NextUds]_vars /\ WF_vars(RunStep)

(***************************************************************************)
(* get_out_slice_info evaluated on its own                                 *)
(***************************************************************************)
MaxE == 5

InitIdle ==
  /\ arch = [ALIGN_4N |-> FALSE, bits |-> 32, LMEM_BYTES |-> 64]
  /\ lg = GroupSingle(1, 1, 32)
  /\ pc = "idle"
  /\ call = "none"
  /\ accepted = FALSE
  /\ nsec = 0
  /\ iter_n = 0
  /\ shape_secs = [nsecs |-> 1, hsecs |-> 1]
  /\ max_shape_secs = [nsecs |-> 0, hsecs |-> 0]
  /\ status = FALSE
  /\ total_secs = 0 - 1
  /\ tensor_infos = EmptyInfos
  /\ tensor_branchs = << >>
  /\ op_set = NoOps(lg)
  /\ out_tensor_set = {}
  /\ prop_ret = "none"
  /\ ret = "none"

main_vars == << lg, arch, pc, call, accepted, nsec, iter_n, shape_secs,
                max_shape_secs, status, total_secs, tensor_infos,
                tensor_branchs, op_set, out_tensor_set, prop_ret, ret >>

InitOut ==
  /\ InitIdle
  /\ fin \in { [fn |-> "get_out_slice_info", nsecs |-> a, hsecs |-> b,
                n |-> c, h |-> d] : a \in 1..MaxE, b \in 1..MaxE,
                                    c \in 1..MaxE, d \in 1..MaxE }
  /\ fout = NoArg

ApplyOut ==
  /\ fin.fn = "get_out_slice_info"
  /\ fout = NoArg
  /\ fout' = [fn |-> "get_out_slice_info",
              si |-> get_out_slice_info([nsecs |-> fin.nsecs,
                                         hsecs |-> fin.hsecs], fin.n, fin.h)]
  /\ UNCHANGED fin
  /\ UNCHANGED main_vars

NextOut == ApplyOut

SpecOut == InitOut /\ [][NextOut]_vars

(***************************************************************************)
(* stripe_mine_max_slice and stripe_mine_idx_slice run twice in a row on   *)
(* the same group and split factors, over a map left by earlier work       *)
(***************************************************************************)
\* contents the map can hold when a run starts: nothing, the records of an
\* exact run on other split factors, a record of every tensor of the group
PriorInfos(g) ==
  { EmptyInfos,
    stripe_mine_idx_slice(g, [nsecs |-> 2, hsecs |-> 2], EmptyInfos).ti,
    [ t \in 1..Len(g.tensors) |->
        [n |-> << << 0, 1 >> >>, h |-> << << 0, 1 >>, << 1, 1 >> >>] ] }

InitTwice ==
  /\ arch \in Archs
  /\ \E N \in 1..MaxN, H \in 1..MaxH : lg \in Groups(N, H, arch.bits)
  /\ pc = "idle"
  /\ call \in {"max", "idx"}
  /\ accepted = FALSE
  /\ nsec = 0
  /\ iter_n = 0
  /\ shape_secs \in { [nsecs |-> n, hsecs |-> h] : n \in 1..MaxN, h \in 1..MaxH }
  /\ max_shape_secs = [nsecs |-> 0, hsecs |-> 0]
  /\ status = FALSE
  /\ total_secs = 0 - 1
  /\ tensor_infos \in PriorInfos(lg)
  /\ tensor_branchs = << >>
  /\ op_set = NoOps(lg)
  /\ out_tensor_set = {}
  /\ prop_ret = "none"
  /\ ret = "none"
  /\ fin = [fn |-> "twice", runs |-> 0]
  /\ fout = NoArg

\* one whole run; the result of the first run is kept in fout
RunAgain(r) ==
  /\ fin.fn = "twice"
  /\ fin.runs < 2
  /\ tensor_infos' = r.ti
  /\ ret' = IF r.ok THEN "ok" ELSE "fail"
  /\ prop_ret' = ret'
  /\ fin' = [fin EXCEPT !.runs = @ + 1]
  /\ fout' = IF fin.runs = 0
             THEN [fn |-> "twice", ok |-> r.ok, ti |-> r.ti]
             ELSE fout
  /\ UNCHANGED << lg, arch, pc, call, accepted, nsec, iter_n, shape_secs,
                  max_shape_secs, status, total_secs, tensor_branchs, op_set,
                  out_tensor_set >>

RunMaxAgain ==
  /\ call = "max"
  /\ RunAgain(stripe_mine_max_slice(lg, arch, shape_secs, tensor_infos))

RunIdxAgain ==
  /\ call = "idx"
  /\ RunAgain(stripe_mine_idx_slice(lg, shape_secs, tensor_infos))

NextTwice == RunMaxAgain \/ RunIdxAgain

SpecTwice == InitTwice /\ [][NextTwice]_vars

(***************************************************************************)
(* get_group_max_secs evaluated on two groups and on the group made of the *)
(* operations of the first followed by those of the second                 *)
(***************************************************************************)
CeilGroups(N, H, b) == Groups(N, H, b) \cup { GroupWiden(N, H, b) }

ShiftDef(t, k) == IF t.def > 0 THEN [t EXCEPT !.def = @ + k] ELSE t

ShiftIdx(vs, k) == [ i \in 1..Len(vs) |-> vs[i] + k ]

ShiftOp(o, k) == [o EXCEPT !.ins = ShiftIdx(@, k), !.outs = ShiftIdx(@, k)]

Merge(A, B) ==
  LET nt == Len(A.tensors)
      no == Len(A.ops)
  IN [name |-> "merged", type |-> A.type,
      tensors |-> A.tensors
                    \o [ i \in 1..Len(B.tensors) |-> ShiftDef(B.tensors[i], no) ],
      ops |-> A.ops \o [ i \in 1..Len(B.ops) |-> ShiftOp(B.ops[i], nt) ],
      group_ins |-> A.group_ins \o ShiftIdx(B.group_ins, nt),
      group_outs |-> A.group_outs \o ShiftIdx(B.group_outs, nt)]

InitCeil ==
  /\ arch \in Archs
  /\ \E N1 \in 1..MaxN, H1 \in 1..MaxH, N2 \in 1..MaxN, H2 \in 1..MaxH :
       \E A \in CeilGroups(N1, H1, arch.bits), B \in CeilGroups(N2, H2, arch.bits) :
         /\ fin = [fn |-> "get_group_max_secs", a |-> A, b |-> B]
         /\ lg = Merge(A, B)
  /\ pc = "idle"
  /\ call = "none"
  /\ accepted = FALSE
  /\ nsec = 0
  /\ iter_n = 0
  /\ shape_secs = [nsecs |-> 1, hsecs |-> 1]
  /\ max_shape_secs = [nsecs |-> 0, hsecs |-> 0]
  /\ status = FALSE
  /\ total_secs = 0 - 1
  /\ tensor_infos = EmptyInfos
  /\ tensor_branchs = << >>
  /\ op_set = NoOps(lg)
  /\ out_tensor_set = {}
  /\ prop_ret = "none"
  /\ ret = "none"
  /\ fout = NoArg

ApplyCeil ==
  /\ fin.fn = "get_group_max_secs"
  /\ fout = NoArg
  /\ max_shape_secs' = get_group_max_secs(lg, arch)
  /\ fout' = [fn |-> "get_group_max_secs",
              a |-> get_group_max_secs(fin.a, arch),
              b |-> get_group_max_secs(fin.b, arch)]
  /\ UNCHANGED << lg, arch, pc, call, accepted, nsec, iter_n, shape_secs,
                  status, total_secs, tensor_infos, tensor_branchs, op_set,
                  out_tensor_set, prop_ret, ret, fin >>

NextCeil == ApplyCeil

SpecCeil == InitCeil /\ [][NextCeil]_vars

(***************************************************************************)
(* get_split_max_secs evaluated on a schedule of two buffers, and on the   *)
(* same schedule with every size multiplied by k                           *)
(***************************************************************************)
MaxT == 3
MaxSize == 3
MaxCap == 3
MaxK == 3

Schedules ==
  { [T |-> T, bufs |-> << [start_ts |-> s1, end_ts |-> e1],
                          [start_ts |-> s2, end_ts |-> e2] >>] :
      T \in 1..MaxT, s1 \in 0..(MaxT - 1), e1 \in 0..(MaxT - 1),
      s2 \in 0..(MaxT - 1), e2 \in 0..(MaxT - 1) }

InitSecs ==
  /\ InitIdle
  /\ \E sch \in Schedules, z1 \in 0..MaxSize, z2 \in 0..MaxSize,
        cap \in 1..MaxCap, k \in 1..MaxK :
       /\ \A i \in 1..2 : sch.bufs[i].start_ts < sch.T /\ sch.bufs[i].end_ts < sch.T
       /\ fin = [fn |-> "get_split_max_secs", T |-> sch.T, bufs |-> sch.bufs,
                 sizes |-> << z1, z2 >>, LMEM_BYTES |-> cap, k |-> k]
  /\ fout = NoArg

ApplySecs ==
  /\ fin.fn = "get_split_max_secs"
  /\ fout = NoArg
  /\ fout' = [fn |-> "get_split_max_secs",
              r1 |-> get_split_max_secs(fin.T, fin.bufs, fin.sizes,
                                        fin.LMEM_BYTES),
              rk |-> get_split_max_secs(fin.T, fin.bufs,
                                        [ i \in 1..2 |-> fin.k * fin.sizes[i] ],
                                        fin.LMEM_BYTES)]
  /\ UNCHANGED fin
  /\ UNCHANGED main_vars

NextSecs == ApplySecs

SpecSecs == InitSecs /\ [][NextSecs]_vars

(***************************************************************************)
(* Scenario A: a chain of two elementwise operations over a tensor of      *)
(* batch 8 and height 32; the capacity holds 4 of the 32 rows of the       *)
(* tensors that are live together (64 bytes), or 4 rows of one (32 bytes)  *)
(***************************************************************************)
ScenBatch == 8
ScenHeight == 32
ScenCaps == {32, 64}

InitScenA ==
  /\ arch \in { [ALIGN_4N |-> a[1], bits |-> a[2], LMEM_BYTES |-> m] :
                   a \in { << FALSE, 32 >>, << TRUE, 16 >> }, m \in ScenCaps }
  /\ lg = GroupChain(ScenBatch, ScenHeight, arch.bits)
  /\ pc = "idle"
  /\ call = "none"
  /\ accepted = FALSE
  /\ nsec = 0
  /\ iter_n = 0
  /\ shape_secs = [nsecs |-> 1, hsecs |-> 1]
  /\ max_shape_secs = [nsecs |-> 0, hsecs |-> 0]
  /\ status = FALSE
  /\ total_secs = 0 - 1
  /\ tensor_infos = EmptyInfos
  /\ tensor_branchs = << >>
  /\ op_set = NoOps(lg)
  /\ out_tensor_set = {}
  /\ prop_ret = "none"
  /\ ret = "none"
  /\ fin = NoArg
  /\ fout = NoArg

SpecScenA == InitScenA /\ [][Next]_vars

(***************************************************************************)
(* Scenario B: a binary operation with a broadcast operand of height 1     *)
(***************************************************************************)
InitScenB ==
  /\ arch \in Archs
  /\ \E N \in 1..MaxN, H \in 2..MaxH :
       lg \in { GroupBcast(N, H, arch.bits), GroupBcastDiv(N, H, arch.bits) }
  /\ pc = "idle"
  /\ call = "none"
  /\ accepted = FALSE
  /\ nsec = 0
  /\ iter_n = 0
  /\ shape_secs = [nsecs |-> 1, hsecs |-> 1]
  /\ max_shape_secs = [nsecs |-> 0, hsecs |-> 0]
  /\ status = FALSE
  /\ total_secs = 0 - 1
  /\ tensor_infos = EmptyInfos
  /\ tensor_branchs = << >>
  /\ op_set = NoOps(lg)
  /\ out_tensor_set = {}
  /\ prop_ret = "none"
  /\ ret = "none"
  /\ fin = NoArg
  /\ fout = NoArg

SpecScenB == InitScenB /\ [][Next]_vars

(***************************************************************************)
(* Scenario C: an operation of the group forbids splitting along the       *)
(* height; it is the only, the first or the last operation of the group    *)
(***************************************************************************)
InitScenC ==
  /\ arch \in Archs
  /\ \E N \in 1..MaxN, H \in 1..MaxH :
       lg \in { GroupSingleNoSplit(N, H, arch.bits),
                GroupNoSplit(N, H, arch.bits), GroupNoSplitW(N, H, arch.bits) }
  /\ pc = "idle"
  /\ call = "none"
  /\ accepted = FALSE
  /\ nsec = 0
  /\ iter_n = 0
  /\ shape_secs = [nsecs |-> 1, hsecs |-> 1]
  /\ max_shape_secs = [nsecs |-> 0, hsecs |-> 0]
  /\ status = FALSE
  /\ total_secs = 0 - 1
  /\ tensor_infos = EmptyInfos
  /\ tensor_branchs = << >>
  /\ op_set = NoOps(lg)
  /\ out_tensor_set = {}
  /\ prop_ret = "none"
  /\ ret = "none"
  /\ fin = NoArg
  /\ fout = NoArg

SpecScenC == InitScenC /\ [][Next]_vars

(***************************************************************************)
(* init_group_data_secs evaluated on a group, or on two groups merged      *)
(***************************************************************************)
InitGuess ==
  /\ arch \in Archs
  /\ \E N \in 1..MaxN, H \in 1..MaxH :
       \E A \in CeilGroups(N, H, arch.bits), B \in CeilGroups(N, H, arch.bits) :
         lg \in { A, Merge(A, B) }
  /\ pc = "idle"
  /\ call = "none"
  /\ accepted = FALSE
  /\ nsec = 0
  /\ iter_n = 0
  /\ shape_secs = [nsecs |-> 1, hsecs |-> 1]
  /\ max_shape_secs = [nsecs |-> 0, hsecs |-> 0]
  /\ status = FALSE
  /\ total_secs = 0 - 1
  /\ tensor_infos = EmptyInfos
  /\ tensor_branchs = << >>
  /\ op_set = NoOps(lg)
  /\ out_tensor_set = {}
  /\ prop_ret = "none"
  /\ ret = "none"
  /\ fin = [fn |-> "init_group_data_secs"]
  /\ fout = NoArg

\* the call; fout keeps the running split factors, the last is the result
ApplyGuess ==
  /\ fin.fn = "init_group_data_secs"
  /\ fout = NoArg
  /\ LET tr == init_group_data_secs(lg, arch)
     IN /\ fout' = [fn |-> "init_group_data_secs", running |-> tr]
        /\ shape_secs' = tr[Len(tr)]
  /\ max_shape_secs' = get_group_max_secs(lg, arch)
  /\ UNCHANGED << lg, arch, pc, call, accepted, nsec, iter_n, status,
                  total_secs, tensor_infos, tensor_branchs, op_set,
                  out_tensor_set, prop_ret, ret, fin >>

NextGuess == ApplyGuess

SpecGuess == InitGuess /\ [][NextGuess]_vars

(***************************************************************************)
(* Properties                                                              *)
(***************************************************************************)
UdsReturned == call = "uds" /\ pc = "idle"
UdsSucceeded == UdsReturned /\ ret = "ok"
UdsFailed == UdsReturned /\ ret = "fail"

\* a propagation run over the operations of the group has just returned true
\* and shape_secs is still its candidate
PropSucceeded ==
  /\ Len(lg.ops) > 1
  /\ prop_ret = "ok"
  /\ \/ pc = "uds_measure"
     \/ pc = "idle" /\ call \in {"max", "idx"}

\* the pairs ps cut the extent E into contiguous pieces in order
Contiguous(ps) == \A i \in 1..(Len(ps) - 1) : ps[i + 1][1] = ps[i][1] + ps[i][2]

Partition(ps, E) ==
  /\ Len(ps) > 0
  /\ ps[1][1] = 0
  /\ Contiguous(ps)
  /\ \A i \in 1..Len(ps) : ps[i][2] >= 0
  /\ SumLen(ps) = E

\* C1 (as stated): after update_data_split returned success, bounding-mode
\* propagation at the returned {n,h} followed by the buffer accountant
\* requires at most one section, i.e. the group fits the capacity.
C1_FitsAtReturned ==
  (call = "max" /\ accepted /\ pc = "idle" /\ ret = "ok")
    => MeasuredSecs(lg, arch, tensor_infos) <= 1

\* C1 (amended): when update_data_split returns success with {n,h}, n*h is
\* at least the required-section count measured in the last loop iteration,
\* which is the count of the records left in the map.
C1_ProductCoversMeasured ==
  UdsSucceeded =>
    /\ total_secs = MeasuredSecs(lg, arch, tensor_infos)
    /\ shape_secs.nsecs * shape_secs.hsecs >= total_secs

C1_Witness ==
  /\ UdsSucceeded
  /\ total_secs >= 3
  /\ shape_secs.hsecs >= 2
  /\ shape_secs.nsecs * shape_secs.hsecs > total_secs

\* C2: after a propagation run returned success, the record of every tensor
\* consumed inside the group equals the backward map of the record of every
\* output of every in-group consumer (so consumers that disagree make the
\* run fail).
C2_ConsumersAgree ==
  PropSucceeded =>
    \A t \in DOMAIN tensor_infos :
      \A o \in GroupUsers(lg, t) :
        \A k \in 1..Len(lg.ops[o].outs) :
          LET r == lg.ops[o].outs[k] IN
          /\ r \in DOMAIN tensor_infos
          /\ LET b == get_backward_slice_info(tensor_infos[r], lg, o, t,
                                              shape_secs)
             IN b.ok /\ b.si.n = tensor_infos[t].n
                     /\ b.si.h = tensor_infos[t].h

\* a tensor with two in-group consumers after a successful exact run with
\* more than one batch section
C2_Witness ==
  /\ PropSucceeded
  /\ call = "idx"
  /\ shape_secs.nsecs > 1
  /\ \E t \in DOMAIN tensor_infos : Cardinality(GroupUsers(lg, t)) = 2

\* C3 (as stated): after exact-mode propagation succeeded on an accepted
\* split, the pairs of every recorded tensor on a dimension split in more
\* than one section partition the true extent of the tensor.
ExactAccepted ==
  PropSucceeded /\ call = "idx" /\ pc = "idle" /\ accepted

C3_EveryTensorPartitioned ==
  ExactAccepted =>
    \A t \in DOMAIN tensor_infos :
      /\ shape_secs.nsecs > 1 => Partition(tensor_infos[t].n, lg.tensors[t].n)
      /\ shape_secs.hsecs > 1 => Partition(tensor_infos[t].h, lg.tensors[t].h)

\* the record of t on the batch (dim = "n") or height (dim = "h") dimension
\* is the even partition of a group output handed back unchanged: t is a
\* group output, or every consumer maps slices to themselves for t, t has the
\* extent of the consumer's outputs and these are reached the same way
RECURSIVE ReachedByIdentity(_, _, _)
ReachedByIdentity(g, t, dim) ==
  \/ t \in SeqToSet(g.group_outs)
  \/ /\ GroupUsers(g, t) # {}
     /\ \A o \in GroupUsers(g, t) :
          /\ g.ops[o].kind \in {"Elt", "Add", "Div", "NoSplit"}
          /\ \A k \in 1..Len(g.ops[o].outs) :
               LET r == g.ops[o].outs[k] IN
               /\ IF dim = "n" THEN g.tensors[r].n = g.tensors[t].n
                               ELSE g.tensors[r].h = g.tensors[t].h
               /\ ReachedByIdentity(g, r, dim)

\* C3 (amended): the partition property holds for the group outputs and for
\* the tensors reached from them through identity backward maps only; it
\* does not hold for broadcast operands of extent 1 nor for inputs of
\* convolution-like operations.
C3_IdentityPartitioned ==
  ExactAccepted =>
    \A t \in DOMAIN tensor_infos :
      /\ (shape_secs.nsecs > 1 /\ ReachedByIdentity(lg, t, "n"))
           => Partition(tensor_infos[t].n, lg.tensors[t].n)
      /\ (shape_secs.hsecs > 1 /\ ReachedByIdentity(lg, t, "h"))
           => Partition(tensor_infos[t].h, lg.tensors[t].h)

C3_Witness ==
  /\ ExactAccepted
  /\ shape_secs.hsecs > 1
  /\ shape_secs.nsecs > 1
  /\ \E t \in DOMAIN tensor_infos :
       /\ t \notin SeqToSet(lg.group_outs)
       /\ ReachedByIdentity(lg, t, "h")
       /\ lg.tensors[t].h % shape_secs.hsecs # 0

\* the result of get_out_slice_info is available for 1 <= secs <= extent
OutApplied == fout.fn = "get_out_slice_info"

EvenPieces(ps, E, s) ==
  /\ Len(ps) = s
  /\ ps[1][1] = 0
  /\ Contiguous(ps)
  /\ \A i \in 1..s : ps[i][2] >= 1
  /\ SumLen(ps) = E
  /\ \A i, j \in 1..s : ps[i][2] - ps[j][2] <= 1

\* C4: for 1 <= s <= E get_out_slice_info yields exactly s pairs, starting
\* at 0, contiguous, of length >= 1, summing to E, any two lengths differing
\* by at most 1; on the batch and on the height dimension independently.
C4_EvenPartition ==
  OutApplied =>
    /\ fin.nsecs <= fin.n => EvenPieces(fout.si.n, fin.n, fin.nsecs)
    /\ fin.hsecs <= fin.h => EvenPieces(fout.si.h, fin.h, fin.hsecs)

C4_Witness ==
  /\ OutApplied
  /\ fin.n = 5 /\ fin.nsecs = 3
  /\ fin.h = 5 /\ fin.hsecs = 2

LastAbsorbs(ps, E, s) ==
  /\ Len(ps) = s
  /\ \A i \in 1..(s - 1) : ps[i][2] = E \div s
  /\ ps[s][2] = E - (s - 1) * (E \div s)

\* C5 (as stated): every piece but the last has length floor(E/s) and the
\* last piece has length E - (s-1)*floor(E/s).
C5_LastAbsorbsRemainder ==
  OutApplied =>
    /\ fin.nsecs <= fin.n => LastAbsorbs(fout.si.n, fin.n, fin.nsecs)
    /\ fin.hsecs <= fin.h => LastAbsorbs(fout.si.h, fin.h, fin.hsecs)

FirstAbsorb(ps, E, s) ==
  /\ Len(ps) = s
  /\ \A i \in 1..s :
       ps[i][2] = (E \div s) + (IF i <= E % s THEN 1 ELSE 0)

\* C5 (amended): the remainder is spread over the first pieces: the first
\* E mod s pieces have length floor(E/s) + 1 and the others floor(E/s).
C5_FirstAbsorbRemainder ==
  OutApplied =>
    /\ fin.nsecs <= fin.n => FirstAbsorb(fout.si.n, fin.n, fin.nsecs)
    /\ fin.hsecs <= fin.h => FirstAbsorb(fout.si.h, fin.h, fin.hsecs)

C5_Witness ==
  /\ OutApplied
  /\ fin.h = 5 /\ fin.hsecs = 3
  /\ fout.si.h = << << 0, 2 >>, << 2, 2 >>, << 4, 1 >> >>

\* C6: whenever update_data_split returns success, the split factors lie
\* between 1 and the ceiling of get_group_max_secs.
C6_WithinCeiling ==
  UdsSucceeded =>
    /\ max_shape_secs = get_group_max_secs(lg, arch)
    /\ 1 <= shape_secs.nsecs /\ shape_secs.nsecs <= max_shape_secs.nsecs
    /\ 1 <= shape_secs.hsecs /\ shape_secs.hsecs <= max_shape_secs.hsecs

UdsRunning == call = "uds" /\ pc # "idle"

\* C7 (as stated, batch half): during a run of update_data_split the
\* n-sections held in shape_secs never become smaller from one step to the
\* next.
C7_NsecsNeverDecreases ==
  [][ UdsRunning => shape_secs'.nsecs >= shape_secs.nsecs ]_vars

\* C7 (amended): the loop candidate nsec never decreases during a run, and
\* the measuring step of an iteration never lowers shape_secs.nsecs.
C7_CandidateNeverDecreases ==
  [][ UdsRunning =>
        /\ nsec' >= nsec
        /\ (pc = "uds_measure" => shape_secs'.nsecs >= shape_secs.nsecs) ]_vars

\* an iteration after the first has measured fewer sections than its
\* candidate n, which is kept
C7_Witness ==
  /\ UdsRunning
  /\ pc = "uds_exit"
  /\ status
  /\ iter_n >= 2
  /\ total_secs < iter_n
  /\ shape_secs.nsecs = iter_n

IterationStarts == pc = "uds_for" /\ pc' \in {"prop", "uds_measure"}

\* C8: update_data_split terminates: every iteration starts with a strictly
\* larger n than the one before, n never exceeds max-n-sections, and a
\* running call eventually returns success or failure.
C8_Terminates ==
  /\ [][ IterationStarts =>
           /\ iter_n' > iter_n
           /\ iter_n' <= max_shape_secs.nsecs
           /\ shape_secs'.nsecs = iter_n' ]_vars
  /\ (UdsRunning ~> (UdsReturned /\ ret \in {"ok", "fail"}))

\* the search ran through all its candidates
C8_Witness ==
  /\ UdsFailed
  /\ prop_ret = "ok"
  /\ max_shape_secs.nsecs >= 3
  /\ nsec = max_shape_secs.nsecs + 1

\* C9: once bounding-mode propagation has failed inside update_data_split,
\* the call has returned failure for the candidate that failed.
C9_FailureReturnsAtOnce ==
  (call = "uds" /\ prop_ret = "fail") =>
    /\ pc = "idle"
    /\ ret = "fail"
    /\ status = FALSE
    /\ nsec = iter_n

C9_Witness ==
  /\ call = "uds"
  /\ prop_ret = "fail"
  /\ pc = "idle"
  /\ nsec < max_shape_secs.nsecs

\* C10 (as stated): when update_data_split returns failure the tensor-record
\* map holds no record.
C10_NoRecordAfterFailure ==
  UdsFailed => DOMAIN tensor_infos = {}

\* C10 (amended): the records of a candidate are discarded when the next
\* candidate starts: at the start of every iteration the map holds the
\* seeded group outputs only.
C10_ClearedAtNextCandidate ==
  [][ IterationStarts =>
        /\ DOMAIN tensor_infos' \subseteq SeqToSet(lg.group_outs)
        /\ (Len(lg.ops) = 1 => DOMAIN tensor_infos' = {}) ]_vars

\* the second candidate has just been seeded over the records of the first
C10_Witness ==
  /\ UdsRunning
  /\ pc = "prop"
  /\ iter_n >= 2
  /\ op_set = NoOps(lg)
  /\ DOMAIN tensor_infos = SeqToSet(lg.group_outs)

\* the run the propagation would make on an empty map
FreshRun ==
  IF call = "max" THEN stripe_mine_max_slice(lg, arch, shape_secs, EmptyInfos)
  ELSE stripe_mine_idx_slice(lg, shape_secs, EmptyInfos)

\* C11: stripe_mine_max_slice (resp. stripe_mine_idx_slice) run twice in a
\* row on the same group and split factors, whatever the map held before,
\* returns the same value and leaves the same tensor-record map the second
\* time as the first; for a group of several operations both results are
\* those of a run on an empty map.
C11_Idempotent ==
  /\ (fin.fn = "twice" /\ fin.runs = 2) =>
        /\ (ret = "ok") = fout.ok
        /\ tensor_infos = fout.ti
  /\ (fin.fn = "twice" /\ fin.runs >= 1 /\ Len(lg.ops) > 1) =>
        /\ (ret = "ok") = FreshRun.ok
        /\ tensor_infos = FreshRun.ti

\* the second run has succeeded on split factors above {1,1} over a map that
\* held records of other split factors before the first run
C11_Witness ==
  /\ fin.fn = "twice" /\ fin.runs = 2
  /\ ret = "ok"
  /\ Len(lg.ops) > 1
  /\ shape_secs.nsecs = 3 /\ shape_secs.hsecs = 3
  /\ \E t \in DOMAIN tensor_infos : Len(tensor_infos[t].h) = 3

CeilApplied == fout.fn = "get_group_max_secs"

\* the smallest batch bound ceil(batch / n_align) over the outputs of g
OutBoundN(g, a) ==
  MaxSecsOps(g, a, 1,
             [nsecs |-> SetMax({ g.tensors[t].n : t \in 1..Len(g.tensors) }),
              hsecs |-> maxIntN64, hmax |-> TRUE, n_align |-> 1]).nsecs

\* C12 (as stated): the ceiling of the merged group is at most the minimum
\* of the ceilings of the two groups, on the batch and on the height.
C12_MergeMonotonic ==
  CeilApplied =>
    /\ max_shape_secs.nsecs <= Min(fout.a.nsecs, fout.b.nsecs)
    /\ max_shape_secs.hsecs <= Min(fout.a.hsecs, fout.b.hsecs)

\* C12 (amended): max-h-sections of the merged group is at most that of
\* either group; max-n-sections is at most that of the first group and at
\* most the batch bound of every output of the second group; it is at most
\* max-n-sections of the second group when the batch extent that seeds the
\* second group's ceiling is not below the batch bound of its outputs.
C12_MergeMonotonicSeeded ==
  CeilApplied =>
    /\ max_shape_secs.hsecs <= Min(fout.a.hsecs, fout.b.hsecs)
    /\ max_shape_secs.nsecs <= fout.a.nsecs
    /\ max_shape_secs.nsecs <= OutBoundN(fin.b, arch)
    /\ (SeedN(fin.b) >= OutBoundN(fin.b, arch)) =>
          max_shape_secs.nsecs <= fout.b.nsecs

\* the second group lowers both bounds of the first
C12_Witness ==
  /\ CeilApplied
  /\ fout.a.nsecs = 3 /\ fout.a.hsecs = 4
  /\ fout.b.nsecs = 2 /\ fout.b.hsecs = 1
  /\ fin.b.name = "nosplit"
  /\ max_shape_secs = [nsecs |-> 2, hsecs |-> 1]

SecsApplied == fout.fn = "get_split_max_secs"

\* a buffer is live at step t
LiveAt(buf, t, T) ==
  IF buf.start_ts <= buf.end_ts
  THEN buf.start_ts <= t /\ t <= buf.end_ts
  ELSE (0 <= t /\ t <= buf.end_ts) \/ (buf.start_ts <= t /\ t <= T - 1)

\* the summed sizes of the buffers live at step t
Demand(t) ==
  (IF LiveAt(fin.bufs[1], t, fin.T) THEN fin.sizes[1] ELSE 0)
    + (IF LiveAt(fin.bufs[2], t, fin.T) THEN fin.sizes[2] ELSE 0)

\* C13: get_split_max_secs returns ceil(P / capacity), P being the largest
\* demand of a step in [0, T-1]; a buffer with start <= end is live on
\* [start, end], a wrapping buffer on [0, end] and [start, T-1] only.
C13_PeakOverCapacity ==
  SecsApplied =>
    \E t \in 0..(fin.T - 1) :
      /\ \A u \in 0..(fin.T - 1) : Demand(u) <= Demand(t)
      /\ fout.r1 * fin.LMEM_BYTES >= Demand(t)
      /\ (fout.r1 - 1) * fin.LMEM_BYTES < Demand(t)

\* a wrapping buffer leaves the middle step to the other buffer
C13_Witness ==
  /\ SecsApplied
  /\ fin.T = 3
  /\ fin.bufs[1] = [start_ts |-> 2, end_ts |-> 0]
  /\ fin.bufs[2] = [start_ts |-> 1, end_ts |-> 1]
  /\ fin.sizes = << 2, 3 >>
  /\ fin.LMEM_BYTES = 2
  /\ fout.r1 = 2

\* C14: with every buffer size multiplied by k >= 1 the result R_k and the
\* original result R_1 satisfy k*(R_1 - 1) < R_k <= k*R_1.
C14_ScalesLinearly ==
  SecsApplied =>
    /\ fin.k * (fout.r1 - 1) < fout.rk
    /\ fout.rk <= fin.k * fout.r1

\* rounding makes the scaled result smaller than k times the original
C14_Witness ==
  /\ SecsApplied
  /\ fin.k = 3
  /\ fout.r1 = 2
  /\ fout.rk = 4

\* C15 (as stated): in scenario A the search converges to n = 1 and h >= 8,
\* and the height slice info of the tensors holds 8 contiguous pairs whose
\* lengths sum to 32.
C15_ScenarioA ==
  UdsReturned =>
    /\ ret = "ok"
    /\ shape_secs.nsecs = 1
    /\ shape_secs.hsecs >= 8
    /\ \A t \in DOMAIN tensor_infos :
         /\ Len(tensor_infos[t].h) = 8
         /\ Partition(tensor_infos[t].h, ScenHeight)

\* the required-section count of scenario A at the first candidate {1,1}
ScenRequired == ceiling_func(2 * ScenBatch * ScenHeight, arch.LMEM_BYTES)

\* C15 (amended): in scenario A the search succeeds at its first candidate
\* with the batch split first: n = min(max-n-sections, R) > 1 and
\* h = ceil(R / n), R >= 8 being the required-section count; the records it
\* leaves hold one pair per dimension, and exact-mode propagation on the
\* returned split gives every tensor n contiguous batch pairs summing to 8
\* and h contiguous height pairs summing to 32.
C15_ScenarioABatchFirst ==
  /\ UdsReturned =>
        /\ ret = "ok"
        /\ nsec = 1
        /\ total_secs = ScenRequired /\ total_secs >= 8
        /\ shape_secs.nsecs = Min(max_shape_secs.nsecs, total_secs)
        /\ shape_secs.nsecs > 1
        /\ shape_secs.hsecs = ceiling_func(total_secs, shape_secs.nsecs)
        /\ shape_secs.nsecs * shape_secs.hsecs >= 8
        /\ DOMAIN tensor_infos = 1..3
        /\ \A t \in DOMAIN tensor_infos :
             Len(tensor_infos[t].n) = 1 /\ Len(tensor_infos[t].h) = 1
  /\ (call = "idx" /\ accepted /\ pc = "idle") =>
        /\ ret = "ok"
        /\ DOMAIN tensor_infos = 1..3
        /\ \A t \in DOMAIN tensor_infos :
             /\ Len(tensor_infos[t].n) = shape_secs.nsecs
             /\ Partition(tensor_infos[t].n, ScenBatch)
             /\ Len(tensor_infos[t].h) = shape_secs.hsecs
             /\ Partition(tensor_infos[t].h, ScenHeight)

\* exact-mode propagation has run on the split {8,1} the search returned
C15_Witness ==
  /\ call = "idx" /\ accepted /\ pc = "idle"
  /\ lg = GroupChain(ScenBatch, ScenHeight, 32)
  /\ arch.LMEM_BYTES = 64
  /\ shape_secs = [nsecs |-> 8, hsecs |-> 1]
  /\ total_secs = 0 - 1

\* C16: in scenario B the record of the broadcast operand (tensor 4, of
\* height 1) of a binary operation holds nothing but the pair (0,1) on the
\* height, for every candidate and whatever the height slices of the
\* operation's output are, once the run has visited the operation.
C16_ScenarioB ==
  (op_set[2] > 0 /\ 4 \in DOMAIN tensor_infos /\ shape_secs.hsecs >= 1) =>
    /\ Len(tensor_infos[4].h) >= 1
    /\ \A i \in 1..Len(tensor_infos[4].h) : tensor_infos[4].h[i] = << 0, 1 >>

\* C17: in scenario C max-h-sections of the ceiling is 1 wherever the
\* forbidding operation sits, and update_data_split returns either failure
\* or a split with h = 1.
C17_ScenarioC ==
  /\ get_group_max_secs(lg, arch).hsecs = 1
  /\ UdsReturned => (ret = "fail" \/ (ret = "ok" /\ shape_secs.hsecs = 1))

\* scenario D: the first candidate of a group of several operations whose
\* ceiling allows n >= 2 has been propagated and requires two sections
ScenD ==
  /\ call = "uds"
  /\ pc = "uds_measure"
  /\ Len(lg.ops) >= 2
  /\ nsec = 1
  /\ max_shape_secs.nsecs >= 2
  /\ MeasuredSecs(lg, arch, tensor_infos) = 2

\* C18: in scenario D update_data_split stops at that candidate and returns
\* success with n = 2 (and h = 1).
C18_ScenarioD ==
  /\ [][ ScenD => /\ pc' = "uds_exit"
                  /\ status'
                  /\ shape_secs' = [nsecs |-> 2, hsecs |-> 1] ]_vars
  /\ [][ (call = "uds" /\ pc = "uds_exit" /\ status) =>
            /\ pc' = "idle"
            /\ ret' = "ok"
            /\ shape_secs' = shape_secs ]_vars

C18_Witness ==
  /\ UdsSucceeded
  /\ Len(lg.ops) >= 2
  /\ max_shape_secs.nsecs = 3
  /\ nsec = 1
  /\ total_secs = 2
  /\ shape_secs = [nsecs |-> 2, hsecs |-> 1]

\* the outputs of the operations of g
OpOutputs(g) ==
  UNION { SeqToSet(get_output_values(g, o)) : o \in 1..Len(g.ops) }

\* the batch packing unit of a tensor: 32 / bit width under ALIGN_4N, else 1
NAlign(g, a, v) == IF a.ALIGN_4N THEN 32 \div g.tensors[v].bits ELSE 1

\* C19: get_group_max_secs returns max-n >= 1 and max-h >= 1 with
\* max-n <= ceil(batch(v) / n_align(v)) and max-h <= height(v) for every
\* output v of every operation of the group.
C19_CeilingBounds ==
  CeilApplied =>
    /\ max_shape_secs.nsecs >= 1
    /\ max_shape_secs.hsecs >= 1
    /\ \A v \in OpOutputs(lg) :
         /\ max_shape_secs.nsecs
              <= ceiling_func(lg.tensors[v].n, NAlign(lg, arch, v))
         /\ max_shape_secs.hsecs <= lg.tensors[v].h

\* batch packing and the smallest height decide the ceiling
C19_Witness ==
  /\ CeilApplied
  /\ arch.ALIGN_4N
  /\ fout.a = [nsecs |-> 2, hsecs |-> 4]
  /\ fout.b = [nsecs |-> 1, hsecs |-> 3]
  /\ max_shape_secs = [nsecs |-> 1, hsecs |-> 3]
  /\ \E v \in OpOutputs(lg) : lg.tensors[v].n = 3

GuessApplied == fout.fn = "init_group_data_secs"

\* C20: init_group_data_secs returns {n,h} with 1 <= n <= max-n-sections
\* and 1 <= h <= max-h-sections, its running n and h never decrease from
\* one operation to the next, and a single-operation group yields {1,1}.
C20_GuessWithinCeiling ==
  GuessApplied =>
    /\ 1 <= shape_secs.nsecs /\ shape_secs.nsecs <= max_shape_secs.nsecs
    /\ 1 <= shape_secs.hsecs /\ shape_secs.hsecs <= max_shape_secs.hsecs
    /\ \A i \in 1..(Len(fout.running) - 1) :
         /\ fout.running[i + 1].nsecs >= fout.running[i].nsecs
         /\ fout.running[i + 1].hsecs >= fout.running[i].hsecs
    /\ Len(lg.ops) = 1 => shape_secs = [nsecs |-> 1, hsecs |-> 1]

\* the weight operands of the operations of g
WeightOperands(g) ==
  { v \in UNION { SeqToSet(get_input_values(g, o)) : o \in 1..Len(g.ops) } :
      isWeight(g, v) }

\* a propagation run is under way or has just ended on a group of several
\* operations, and update_tensor_infos has not run since
RecordsOfPropagation ==
  \/ pc \in {"prop", "uds_measure"}
  \/ Len(lg.ops) > 1 /\ call \in {"max", "idx"}

\* C21: after update_data_split returned success every weight operand has
\* the record [(0, N)], [(0, H)] of its full extents, whatever {n,h} is;
\* the records a propagation run makes never include a weight or a
\* placeholder operand.
C21_WeightsWhole ==
  /\ UdsSucceeded =>
        \A v \in WeightOperands(lg) :
          /\ v \in DOMAIN tensor_infos
          /\ tensor_infos[v] = [n |-> << << 0, lg.tensors[v].n >> >>,
                                h |-> << << 0, lg.tensors[v].h >> >>]
  /\ RecordsOfPropagation =>
        \A t \in DOMAIN tensor_infos :
          lg.tensors[t].def \notin {WeightOp, NoneOp}

\* a group with a weight has been split in several batch sections
C21_Witness ==
  /\ UdsSucceeded
  /\ shape_secs.nsecs >= 2
  /\ \E v \in WeightOperands(lg) :
       lg.tensors[v].h = 3 /\ v \in DOMAIN tensor_infos

\* some tensor has a record whose height slices sum to more than 1.5 times
\* its height (the test of check_hsecs fails on it)
OversizedRecord ==
  \E t \in DOMAIN tensor_infos : check_hsecs(lg, t, tensor_infos[t]) = {"false"}

\* C22: while some record's height-slice lengths sum to more than 1.5 times
\* the tensor's height, no propagation run has returned success and no
\* split has been accepted by the search.
C22_OversizedRejected ==
  (shape_secs.hsecs >= 1 /\ OversizedRecord) =>
     ~ PropSucceeded /\ ~ UdsSucceeded

\* the tensor at the head of the worklist is a group input
PopsGroupInput ==
  /\ pc = "prop"
  /\ tensor_branchs # << >>
  /\ Head(tensor_branchs) \in SeqToSet(lg.group_ins)

\* C22 (as the code behaves): the test of check_hsecs is not applied; a
\* popped group input is accepted without looking at its record, whatever
\* its height slices sum to: the run goes on, and only the worklist loses
\* its head.
C22_GroupInputAccepted ==
  [][PopsGroupInput =>
       /\ pc' = "prop"
       /\ prop_ret' = prop_ret
       /\ tensor_infos' = tensor_infos
       /\ op_set' = op_set
       /\ tensor_branchs' = Tail(tensor_branchs)]_vars

\* a run succeeded with a record summing to more than 1.5 times the height
C22_Witness ==
  /\ PropSucceeded
  /\ shape_secs.hsecs >= 1
  /\ \E t \in SeqToSet(lg.group_ins) :
       /\ t \in DOMAIN tensor_infos
       /\ check_hsecs(lg, t, tensor_infos[t]) = {"false"}

(***************************************************************************)
(* Groups with an operation whose backward map fails for every request.    *)
(***************************************************************************)
InitNoRule ==
  /\ arch \in Archs
  /\ \E N \in 1..MaxN, H \in 1..MaxH :
       lg \in { GroupNoRule(N, H, arch.bits), GroupWiden(N, H, arch.bits) }
  /\ pc = "idle"
  /\ call = "none"
  /\ accepted = FALSE
  /\ nsec = 0
  /\ iter_n = 0
  /\ shape_secs = [nsecs |-> 1, hsecs |-> 1]
  /\ max_shape_secs = [nsecs |-> 0, hsecs |-> 0]
  /\ status = FALSE
  /\ total_secs = 0 - 1
  /\ tensor_infos = EmptyInfos
  /\ tensor_branchs = << >>
  /\ op_set = NoOps(lg)
  /\ out_tensor_set = {}
  /\ prop_ret = "none"
  /\ ret = "none"
  /\ fin = NoArg
  /\ fout = NoArg

SpecNoRule == InitNoRule /\ [][Next]_vars

\* the operands of the operations of lg that have no backward rule
NoRuleOperands ==
  UNION { SeqToSet(get_input_values(lg, o)) :
            o \in { x \in 1..Len(lg.ops) : lg.ops[x].kind = "NoRule" } }

\* C23: a propagation run that succeeded has derived no record for an
\* operand of an operation without a usable backward rule, whatever the
\* candidate {n,h} is, {1,1} included.
C23_NoDefaultRecord ==
  PropSucceeded => \A v \in NoRuleOperands : v \notin DOMAIN tensor_infos

\* C23 (as the code behaves): a run that succeeded with a record for such
\* an operand had neither n > 1 nor h > 1, and with {1,1} the record holds
\* the operand's full extents (0, N) and (0, H): the backward map was never
\* consulted.
C23_DefaultOnlyUnsplit ==
  (PropSucceeded /\ \E v \in NoRuleOperands : v \in DOMAIN tensor_infos) =>
     /\ shape_secs.nsecs = 1
     /\ shape_secs.hsecs <= 1
     /\ shape_secs.hsecs = 1 =>
          \A v \in NoRuleOperands :
            /\ v \in DOMAIN tensor_infos
            /\ tensor_infos[v] = [n |-> << << 0, lg.tensors[v].n >> >>,
                                  h |-> << << 0, lg.tensors[v].h >> >>]

\* an unsplit run succeeded through the operation without a backward rule
C23_Witness ==
  /\ PropSucceeded
  /\ shape_secs = [nsecs |-> 1, hsecs |-> 1]
  /\ lg.tensors[1].h >= 2
  /\ \E v \in NoRuleOperands : v \in DOMAIN tensor_infos

(***************************************************************************)
(* is_same_slice_info applied to two slice infos of at most MaxP pairs.    *)
(***************************************************************************)
MaxP == 2

SlicePairs == { << 0, 1 >>, << 0, 2 >>, << 1, 1 >> }

PairSeqs(k) == UNION { [1..l -> SlicePairs] : l \in 0..k }

SliceInfos == [n : PairSeqs(MaxP - 1), h : PairSeqs(MaxP)]

InitSame ==
  /\ InitIdle
  /\ fin \in { [fn |-> "is_same_slice_info", si0 |-> a, si1 |-> b] :
                a \in SliceInfos, b \in SliceInfos }
  /\ fout = NoArg

ApplySame ==
  /\ fin.fn = "is_same_slice_info"
  /\ fout = NoArg
  /\ fout' = [fn |-> "is_same_slice_info",
              r01 |-> is_same_slice_info(fin.si0, fin.si1),
              r10 |-> is_same_slice_info(fin.si1, fin.si0),
              r00 |-> is_same_slice_info(fin.si0, fin.si0)]
  /\ UNCHANGED fin
  /\ UNCHANGED main_vars

NextSame == ApplySame

SpecSame == InitSame /\ [][NextSame]_vars

SameApplied == fout.fn = "is_same_slice_info"

\* C24: is_same_slice_info is reflexive and symmetric, and it is true
\* exactly when the two batch sequences are the same sequence of pairs and
\* the two height sequences are the same sequence of pairs.
C24_SameIsEquality ==
  SameApplied =>
    /\ fout.r00
    /\ fout.r01 = fout.r10
    /\ fout.r01 <=> (fin.si0.n = fin.si1.n /\ fin.si0.h = fin.si1.h)

\* two infos with the same numbers of pairs and the same batch pairs that
\* differ in one height pair have been compared
C24_Witness ==
  /\ SameApplied
  /\ fin.si0.n = fin.si1.n
  /\ Len(fin.si0.h) = 2
  /\ Len(fin.si1.h) = 2
  /\ fin.si0.h[1] = fin.si1.h[1]
  /\ fin.si0.h[2] # fin.si1.h[2]
  /\ ~ fout.r01

\* C25: every iteration of the loop of update_data_split starts the
\* bounding propagation with {n = loop value, h = 1}, and no propagation
\* of the search runs with h above max-h-sections.
C25_IterationUnsplitHeight ==
  /\ [][IterationStarts =>
          shape_secs' = [nsecs |-> nsec, hsecs |-> 1]]_vars
  /\ []((call = "uds" /\ pc = "prop") =>
          shape_secs.hsecs <= max_shape_secs.hsecs)

\* number of occurrences of t in the worklist tb
RECURSIVE Count(_, _)
Count(tb, t) ==
  IF tb = << >> THEN 0
  ELSE (IF Head(tb) = t THEN 1 ELSE 0) + Count(Tail(tb), t)

\* this step pushes t: the seeding of a run puts it on the fresh worklist,
\* or a step of the loop appends it behind what is left after the pop
Pushes(t) ==
  \/ pc # "prop" /\ pc' = "prop" /\ Count(tensor_branchs', t) > 0
  \/ pc = "prop" /\ tensor_branchs # << >>
       /\ Count(tensor_branchs', t) > Count(Tail(tensor_branchs), t)

\* C26: a tensor is pushed on the worklist only when every operation of
\* the group that consumes it has been visited.
C26_PushedAfterConsumers ==
  [][\A t \in 1..Len(lg.tensors) :
       Pushes(t) => \A o \in GroupUsers(lg, t) : op_set'[o] > 0]_vars

\* a tensor with two consumers in the group is on the worklist
C26_Witness ==
  /\ pc = "prop"
  /\ \E t \in 1..Len(lg.tensors) :
       /\ Count(tensor_branchs, t) > 0
       /\ Cardinality(GroupUsers(lg, t)) >= 2

\* the seeding step of a propagation run on a group of several operations
SeedingStep == pc # "prop" /\ pc' = "prop"

\* C27: a group output is pushed regardless of the liveness test: the
\* seeding of a run puts every group output on the worklist, also one
\* whose consumers inside the group have not been visited.
C27_OutputsAlwaysPushed ==
  [][SeedingStep =>
       \A t \in SeqToSet(lg.group_outs) : Count(tensor_branchs', t) > 0]_vars

\* C27 (as the code behaves): a group output is subject to the liveness
\* test like any tensor: the seeding pushes only the group outputs without
\* a consumer inside the group, and a later step pushes a group output
\* only when all its consumers inside the group have been visited.
C27_OutputsWaitForConsumers ==
  [][\A t \in SeqToSet(lg.group_outs) :
       /\ (SeedingStep /\ GroupUsers(lg, t) # {}) =>
             Count(tensor_branchs', t) = 0
       /\ Pushes(t) => \A o \in GroupUsers(lg, t) : op_set'[o] > 0]_vars

\* a group output consumed inside the group is on the worklist, after its
\* consumer was visited
C27_Witness ==
  /\ pc = "prop"
  /\ \E t \in SeqToSet(lg.group_outs) :
       /\ GroupUsers(lg, t) # {}
       /\ Count(tensor_branchs, t) > 0
       /\ \A o \in GroupUsers(lg, t) : op_set[o] > 0

(***************************************************************************)
(* Propagation runs on groups with several inputs, with a tensor read by   *)
(* two operations, with a group output read inside the group, and with an  *)
(* input that has a producer outside the group.                            *)
(***************************************************************************)
InitBoundary ==
  /\ arch \in Archs
  /\ \E N \in 1..MaxN, H \in 1..MaxH :
       lg \in { GroupBoundary(N, H, arch.bits), GroupBcast(N, H, arch.bits),
                GroupFork(N, H, arch.bits), GroupOutMid(N, H, arch.bits) }
  /\ pc = "idle"
  /\ call = "none"
  /\ accepted = FALSE
  /\ nsec = 0
  /\ iter_n = 0
  /\ shape_secs = [nsecs |-> 1, hsecs |-> 1]
  /\ max_shape_secs = [nsecs |-> 0, hsecs |-> 0]
  /\ status = FALSE
  /\ total_secs = 0 - 1
  /\ tensor_infos = EmptyInfos
  /\ tensor_branchs = << >>
  /\ op_set = NoOps(lg)
  /\ out_tensor_set = {}
  /\ prop_ret = "none"
  /\ ret = "none"
  /\ fin = NoArg
  /\ fout = NoArg

NextProp == CallMax \/ CallIdx \/ Pop \/ PropDone

SpecBoundary == InitBoundary /\ [][NextProp]_vars

\* C28: propagation never crosses the group boundary: no operation outside
\* the group is ever visited, every tensor with a record is a group output
\* or an operand of an operation of the group, and popping a group input
\* visits no operation and makes no record.
C28_StaysInsideGroup ==
  /\ [](/\ op_set[ExtOp] = 0
        /\ \A t \in DOMAIN tensor_infos :
             t \in SeqToSet(lg.group_outs) \/ GroupUsers(lg, t) # {})
  /\ [][PopsGroupInput =>
          op_set' = op_set /\ tensor_infos' = tensor_infos]_vars

\* a split run has ended after popping the input of the group whose input
\* is produced outside from another tensor
C28_Witness ==
  /\ PropSucceeded
  /\ OutsideTensors(lg) # {}
  /\ shape_secs.nsecs >= 2
  /\ \A t \in SeqToSet(lg.group_ins) : t \in DOMAIN tensor_infos
  /\ \A o \in 1..Len(lg.ops) : op_set[o] > 0

\* the backward map of op fails or yields an empty slice for a pair of out
MapFailsN(op, out) ==
  \E i \in 1..Len(tensor_infos[out].n) :
    LET s == tensor_infos[out].n[i]
        r == BackwardN(lg, op, s[1], s[2])
    IN ~ r.ok \/ r.slice = 0

MapFailsH(op, out) ==
  \E i \in 1..Len(tensor_infos[out].h) :
    LET s == tensor_infos[out].h[i]
        r == BackwardH(lg, op, s[1], s[2])
    IN ~ r.ok \/ r.slice = 0

\* in is an operand of the producer of out for which the map fails on a
\* dimension that is split and on which in is not a broadcast operand of
\* extent 1
FailingOperand(out, in) ==
  LET op == lg.tensors[out].def
      bc == is_broadcast_binary(lg, op, in)
  IN /\ lg.tensors[in].def \notin {WeightOp, NoneOp}
     /\ \/ /\ shape_secs.nsecs > 1
           /\ ~ (bc /\ lg.tensors[in].n = 1)
           /\ MapFailsN(op, out)
        \/ /\ shape_secs.hsecs > 1
           /\ ~ (bc /\ lg.tensors[in].h = 1)
           /\ MapFailsH(op, out)

\* the popped tensor is produced in the group by an operation with such an
\* operand
PopsFailing ==
  /\ pc = "prop"
  /\ tensor_branchs # << >>
  /\ Head(tensor_branchs) \notin SeqToSet(lg.group_ins)
  /\ \E in \in SeqToSet(lg.ops[lg.tensors[Head(tensor_branchs)].def].ins) :
       FailingOperand(Head(tensor_branchs), in)

\* C29: on a split dimension, for an operand that is not a broadcast
\* operand of extent 1, a backward map that fails or yields a zero-length
\* slice makes get_backward_slice_info return failure, and the run returns
\* failure at that step, with no further worklist entry processed.
C29_MapFailureFailsRun ==
  [][PopsFailing =>
       LET out == Head(tensor_branchs)
           op == lg.tensors[out].def
       IN /\ \A in \in SeqToSet(lg.ops[op].ins) :
               FailingOperand(out, in) =>
                 ~ get_backward_slice_info(tensor_infos[out], lg, op, in,
                                           shape_secs).ok
          /\ prop_ret' = "fail"
          /\ ret' = "fail"
          /\ pc' = "idle"]_vars

\* a run has failed at an operation without a backward rule, on a split
\* batch whose pieces are all non-empty
C29_Witness ==
  /\ prop_ret = "fail"
  /\ pc = "idle"
  /\ shape_secs.nsecs = 2
  /\ shape_secs.hsecs = 1
  /\ lg.name = "norule"
  /\ lg.tensors[1].n >= 2
  /\ op_set[2] > 0

(***************************************************************************)
(* Propagation runs on groups in which a tensor is pushed more than once.  *)
(* The while loops of lines 434-443 and 475-486 run without interruption,  *)
(* hence the weak fairness of their steps.                                 *)
(***************************************************************************)
InitMulti ==
  /\ arch \in { a \in Archs : a.LMEM_BYTES = 64 }
  /\ \E N \in 1..MaxN, H \in 1..MaxH :
       lg \in { GroupTwice(N, H, arch.bits), GroupTwoOuts(N, H, arch.bits),
                GroupFork(N, H, arch.bits) }
  /\ pc = "idle"
  /\ call = "none"
  /\ accepted = FALSE
  /\ nsec = 0
  /\ iter_n = 0
  /\ shape_secs = [nsecs |-> 1, hsecs |-> 1]
  /\ max_shape_secs = [nsecs |-> 0, hsecs |-> 0]
  /\ status = FALSE
  /\ total_secs = 0 - 1
  /\ tensor_infos = EmptyInfos
  /\ tensor_branchs = << >>
  /\ op_set = NoOps(lg)
  /\ out_tensor_set = {}
  /\ prop_ret = "none"
  /\ ret = "none"
  /\ fin = NoArg
  /\ fout = NoArg

LoopStep == Pop \/ PropDone

FairMulti == InitMulti /\ [][NextProp]_vars /\ WF_vars(LoopStep)

\* C30: the worklist loop of a propagation run terminates: every run that
\* is in its loop returns, also when a tensor is on the worklist twice.
C30_WorklistTerminates == (pc = "prop") ~> (pc = "idle" /\ prop_ret # "none")

\* the worklist holds the same tensor twice
C30_Witness ==
  /\ pc = "prop"
  /\ \E t \in 1..Len(lg.tensors) : Count(tensor_branchs, t) >= 2

=============================================================================
